---- MODULE Spec2Model ----
(***************************************************************************)
(* Missing-Object-Detection: the tracker (src/trackers/deep_sort_tracker.py)*)
(* and the baseline memory (src/engine/baseline_memory.py) as state         *)
(* machines.  One action per public method; pure helpers are operators.     *)
(*                                                                          *)
(* Wall-clock values (time.time(): baseline_time, the history entries'      *)
(* 'timestamp') are read from the environment and decide no branch; they    *)
(* are left out of the state.                                               *)
(***************************************************************************)
EXTENDS Integers, Sequences, FiniteSets, TLC

(***************************************************************************)
(* Bounds of the model.                                                     *)
(***************************************************************************)
MaxFrames == 6             \* update calls per BaselineMemory run
MaxMissingThreshold == 3   \* missing_object_frames is drawn from 1..this
MaxStability == 2          \* stability_frames is drawn from 1..this

MaxTrkFrames == 3          \* update calls per tracker run
MaxDets == 2               \* detections handed to the association step
MaxId == 3                 \* identifiers issued per tracker run
MaxAsgTrackers == 2        \* trackers handed to the association step
ScenarioFrames == 10       \* update calls of the section 8 scenario
PipelineFrames == 35       \* frames of a pipeline run
MaxGaps == 1               \* runs of frames without the object per pipeline run
MaxCoord == 3              \* box coordinates handed to _calculate_iou are 0..this
MonitorFrames == 4         \* process_frame calls per SceneMonitor run
DriftFrames == 7           \* update calls of a run with a changing box
MultiFrames == 3           \* update calls of a run with several objects
StageFrames == 2           \* _process_frame calls of a run in which stages may raise
AlertFrames == 17          \* frames of a run of the monitor with the notifier
AlertChanges == 2          \* frames of such a run whose identifier set differs from the last

Ids == {1, 2}              \* identifiers the tracker hands to the memory

\* Boxes [x1, y1, x2, y2] the detector reports.  B1..B4 share a corner and
\* overlap one another by 3/4, 1/2, 1/4, 2/3, 1/3 and 1/2; B5 and the
\* scenario's box are apart from them.
B1 == <<0, 0, 4, 4>>
B2 == <<0, 0, 4, 3>>
B3 == <<0, 0, 4, 2>>
B4 == <<0, 0, 4, 1>>
B5 == <<6, 6, 9, 9>>
ScenarioBox == <<10, 10, 50, 50>>
Boxes == {B1, B3, B5}
AsgBoxes == {B1, B2, B3, B4, B5}
Classes == {0}
Confidences == {9}
MaxAgeValues == {0, 2}       \* max_age of SpecTracker
MinHitsValues == {2}         \* min_hits of SpecTracker
FrameDetCounts == {0, 1, 2}  \* detections per frame of SpecTracker

TrackHistoryCap == 5       \* deep_sort_tracker.py:155

HistoryCap == 30           \* baseline_memory.py:102

VARIABLES
    \* ---- BaselineMemory (src/engine/baseline_memory.py:18-30) ----
    missing_frames_threshold,  \* config 'missing_object_frames'
    stability_frames,          \* config 'stability_frames'
    tracked_objects,           \* {object_id: object_data}
    object_history,            \* {object_id: [frame appearances]}
    missing_objects,           \* {object_id: object_data + missing_frames}
    new_objects,               \* {object_id: object_data + new_frames}
    is_baseline_established,
    frame_count,
    \* ---- what the last update call printed and returned ----
    printed_missing,           \* ids of "... is now considered MISSING"
    printed_new,               \* ids of "NEW object detected with ID ..."
    missing_ids,               \* returned missing_ids (as a set)
    new_ids,                   \* returned new_ids (as a set)
    \* ---- DeepSORTTracker (src/trackers/deep_sort_tracker.py:200-206) ----
    max_age,
    min_hits,
    iou_threshold,             \* as a fraction [num, den]
    trackers,                  \* the registry, a list of KalmanTracker
    next_id,
    trk_frame_count,           \* the tracker's frame_count
    trk_output,                \* the list the last update call returned
    \* ---- one call of _assign_detections_to_trackers ----
    asg_detections,            \* its detections argument
    asg_trackers,              \* its trackers argument
    asg_done,
    asg_result,                \* (matches, unmatched_detections, unmatched_trackers)
    \* ---- observers of the tracker's call sequence ----
    issued_ids,                \* identifiers of the trackers created, in creation order
    confirmed_ids,             \* identifiers returned by some update call
    empty_run,                 \* consecutive calls, up to now, with no detection
    single_run,                \* calls from the first on that fed one and the same box alone
    first_box,                 \* that box
    ids_before_run,            \* identifiers in the registry after the last call that had a detection
    gaps,                      \* runs of calls with no detection begun so far
    \* ---- one call of _calculate_iou ----
    iou_boxA,
    iou_boxB,
    iou_done,
    iou_result,                \* what line 234 yields
    \* ---- observers of the memory's call sequence (not program state) ----
    last_op,                   \* "init", "update" or "reset"
    last_input,                \* ids in the input of the last update call
    calls,                     \* update calls since construction or the last reset
    baseline_ids,              \* the input of the stability_frames-th call
    seen_ids,                  \* ids in the input of that call or a later one
    absent_run,                \* per seen id: consecutive calls, up to now, without it
    present_run,               \* per id outside the baseline: consecutive calls, up to now, with it
    missing_events_in_run,     \* per id: MISSING prints during the current absence run
    new_events_in_run,         \* per id: NEW prints during the current appearance run
    reappeared_after,          \* per id: missing_frames it had when it last reappeared (0: never)
    always_present,            \* ids in the input of every update call since construction or reset
    \* ---- SceneMonitor (src/engine/scene_monitor.py:22-24) ----
    total_missing_objects,
    total_new_objects,
    sm_frame_count,            \* the monitor's frame_count
    got_history,               \* what the last call returned, if it was get_object_history
    \* ---- observers of the monitor's call sequence ----
    missing_counts,            \* sizes of the missing lists returned since construction or reset
    new_counts,                \* sizes of the new lists returned since then
    \* ---- AlertNotifier (src/alerts/notify.py:14) ----
    alerts,                    \* the list of active alerts
    added_alerts,              \* the alerts the last update_with_scene_changes call added
    input_changes,             \* (observer) frames whose identifier set differed from the last
    \* ---- one call of InferenceEngine._process_frame and its four timers ----
    pf_frames,                 \* calls begun so far
    pf_stage,                  \* 0: no call under way; 1..4: the with block to run; 5: the return
    pf_locals,                 \* the local names bound so far in the call
    pf_timers,                 \* per with block: start_time and elapsed of its PerformanceTimer
    pf_result,                 \* how the last call ended: "none", "returned" or the error raised
    pf_failed,                 \* the with blocks whose body raised an error in the call
    \* ---- construction ----
    built                      \* the components constructed so far

bmVars == <<missing_frames_threshold, stability_frames, tracked_objects,
            object_history, missing_objects, new_objects,
            is_baseline_established, frame_count,
            printed_missing, printed_new, missing_ids, new_ids>>
obsVars == <<last_op, last_input, calls, baseline_ids, seen_ids, absent_run,
             present_run, missing_events_in_run, new_events_in_run, reappeared_after,
             always_present>>
trkVars == <<max_age, min_hits, iou_threshold, trackers, next_id,
             trk_frame_count, trk_output>>
asgVars == <<asg_detections, asg_trackers, asg_done, asg_result>>
trkObsVars == <<issued_ids, confirmed_ids, empty_run, single_run, first_box,
                ids_before_run, gaps>>
iouVars == <<iou_boxA, iou_boxB, iou_done, iou_result>>
smVars == <<total_missing_objects, total_new_objects, sm_frame_count, got_history>>
smObsVars == <<missing_counts, new_counts>>
anVars == <<alerts, added_alerts, input_changes>>
pfVars == <<pf_frames, pf_stage, pf_locals, pf_timers, pf_result, pf_failed>>
vars == <<bmVars, obsVars, trkVars, asgVars, trkObsVars, iouVars, smVars, smObsVars,
          anVars, pfVars, built>>

(***************************************************************************)
(* Python dicts as functions on their key set.                              *)
(***************************************************************************)
EmptyDict == <<>>
Keys(d) == DOMAIN d
Without(d, ks) == [k \in (DOMAIN d) \ ks |-> d[k]]

\* One tracked-object dictionary as the tracker's get_state produces it
\* (the fields the memory reads: id, bbox, confidence).
ObjData(i) == [id |-> i, bbox |-> <<10, 10, 50, 50>>, confidence |-> 9]

\* current_objects = {obj['id']: obj for obj in tracked_objects}
CurrentObjects(ids) == [i \in ids |-> ObjData(i)]

(***************************************************************************)
(* BaselineMemory._update_missing_objects                                   *)
(***************************************************************************)
\* (variant for C30: the count of an identifier already bookkept is left as it is)
MissingAfterLoop_Stuck(missing, tracked, potentially_missing) ==
    LET touched == {i \in potentially_missing :
                        i \in Keys(missing) \/ i \in Keys(tracked)}
    IN [i \in Keys(missing) \cup touched |->
          IF i \in Keys(missing) THEN missing[i]
          ELSE tracked[i] @@ [missing_frames |-> 1]]

\* lines 124-139: the loop over potentially_missing
MissingAfterLoop(missing, tracked, potentially_missing) ==
    LET touched == {i \in potentially_missing :
                        i \in Keys(missing) \/ i \in Keys(tracked)}
    IN [i \in Keys(missing) \cup touched |->
          IF i \in potentially_missing
          THEN IF i \in Keys(missing)
               THEN [missing[i] EXCEPT !.missing_frames = @ + 1]
               ELSE tracked[i] @@ [missing_frames |-> 1]
          ELSE missing[i]]

\* (variant for C31: the line is printed whatever the count)
MissingPrints_Eager(missing, potentially_missing, threshold) ==
    potentially_missing \cap Keys(missing)

\* lines 130-133: the ids whose "is now considered MISSING" line is printed
MissingPrints(missing, potentially_missing, threshold) ==
    {i \in potentially_missing \cap Keys(missing) :
        /\ missing[i].missing_frames + 1 >= threshold
        /\ missing[i].missing_frames + 1 = threshold}

\* (variant for C5: the reappeared entries are not deleted)
UpdateMissingObjects_KeepReappeared(missing, tracked, potentially_missing, current) ==
    MissingAfterLoop(missing, tracked, potentially_missing)

\* (variant for C35: a record is dropped once its count has passed the threshold)
UpdateMissingObjects_EvictConfirmed(missing, tracked, potentially_missing, current) ==
    LET m1 == MissingAfterLoop(missing, tracked, potentially_missing)
        gone == {i \in Keys(m1) : \/ i \in Keys(current)
                                  \/ m1[i].missing_frames > missing_frames_threshold}
    IN Without(m1, gone)

\* lines 141-150: entries whose id is in the current frame are deleted
UpdateMissingObjects(missing, tracked, potentially_missing, current) ==
    LET m1 == MissingAfterLoop(missing, tracked, potentially_missing)
        reappeared == {i \in Keys(m1) : i \in Keys(current)}
    IN Without(m1, reappeared)

(***************************************************************************)
(* BaselineMemory._update_new_objects                                       *)
(***************************************************************************)
\* lines 161-175: the loop over potentially_new
NewAfterLoop(new, potentially_new, current) ==
    [i \in Keys(new) \cup potentially_new |->
        IF i \in potentially_new
        THEN IF i \in Keys(new)
             THEN [new[i] EXCEPT !.new_frames = @ + 1]
             ELSE current[i] @@ [new_frames |-> 1]
        ELSE new[i]]

\* lines 167-170: the ids whose "NEW object detected" line is printed
NewPrints(new, potentially_new, stability) ==
    {i \in potentially_new \cap Keys(new) :
        /\ new[i].new_frames + 1 >= stability
        /\ new[i].new_frames + 1 = stability}

\* lines 177-185: entries older than 3 x stability_frames are deleted
UpdateNewObjects(new, potentially_new, current, stability) ==
    LET n1 == NewAfterLoop(new, potentially_new, current)
        expired_new == {i \in Keys(n1) : n1[i].new_frames > stability * 3}
    IN Without(n1, expired_new)

(***************************************************************************)
(* BaselineMemory.update, lines 93-103: history append, bounded to 30       *)
(***************************************************************************)
\* (variant for C22: pop() in place of pop(0), the newest entry is dropped)
AppendHistory_DropNewest(h, entry) ==
    IF Len(h) >= HistoryCap THEN h ELSE Append(h, entry)

AppendHistory(h, entry) ==
    LET h1 == Append(h, entry)
    IN IF Len(h1) > HistoryCap THEN Tail(h1) ELSE h1

HistoryAfter(history, current, frame) ==
    [i \in Keys(history) \cup Keys(current) |->
        IF i \in Keys(current)
        THEN AppendHistory(IF i \in Keys(history) THEN history[i] ELSE <<>>,
                           [frame |-> frame, bbox |-> current[i].bbox,
                            confidence |-> current[i].confidence])
        ELSE history[i]]

(***************************************************************************)
(* BaselineMemory.__init__ and reset                                        *)
(***************************************************************************)
BMFresh ==
    /\ tracked_objects = EmptyDict
    /\ object_history = EmptyDict
    /\ missing_objects = EmptyDict
    /\ new_objects = EmptyDict
    /\ is_baseline_established = FALSE
    /\ frame_count = 0
    /\ printed_missing = {}
    /\ printed_new = {}
    /\ missing_ids = {}
    /\ new_ids = {}

BMInit ==
    /\ missing_frames_threshold \in 1..MaxMissingThreshold
    /\ stability_frames \in 1..MaxStability
    /\ BMFresh

BMReset ==
    /\ tracked_objects' = EmptyDict
    /\ object_history' = EmptyDict
    /\ missing_objects' = EmptyDict
    /\ new_objects' = EmptyDict
    /\ is_baseline_established' = FALSE
    /\ frame_count' = 0
    /\ printed_missing' = {}
    /\ printed_new' = {}
    /\ missing_ids' = {}
    /\ new_ids' = {}
    /\ UNCHANGED <<missing_frames_threshold, stability_frames>>

(***************************************************************************)
(* BaselineMemory.update(tracked_objects)                                   *)
(***************************************************************************)
\* (variant for C20: the first call establishes the baseline)
EstablishesNow_AtOnce(fc) == ~is_baseline_established

\* line 67: the baseline is established in this call
EstablishesNow(fc) == ~is_baseline_established /\ fc >= stability_frames

BMUpdate(current_objects) ==
    LET fc == frame_count + 1
        current_ids == Keys(current_objects)
        establish == EstablishesNow(fc)
        established == is_baseline_established \/ establish
        tracked0 == IF establish THEN current_objects ELSE tracked_objects
        previous_ids == Keys(tracked0)
        potentially_missing == previous_ids \ current_ids
        potentially_new == current_ids \ previous_ids
        missing1 == UpdateMissingObjects(missing_objects, tracked0,
                                         potentially_missing, current_objects)
        new1 == UpdateNewObjects(new_objects, potentially_new,
                                 current_objects, stability_frames)
        tracked1 == [i \in previous_ids \cup current_ids |->
                        IF i \in current_ids THEN current_objects[i]
                                             ELSE tracked0[i]]
    IN /\ frame_count' = fc
       /\ is_baseline_established' = established
       /\ IF established
          THEN /\ missing_objects' = missing1
               /\ new_objects' = new1
               /\ tracked_objects' = tracked1
               /\ object_history' = HistoryAfter(object_history, current_objects, fc)
               /\ printed_missing' = MissingPrints(missing_objects, potentially_missing,
                                                   missing_frames_threshold)
               /\ printed_new' = NewPrints(new_objects, potentially_new, stability_frames)
          ELSE /\ UNCHANGED <<missing_objects, new_objects, tracked_objects,
                              object_history>>
               /\ printed_missing' = {}
               /\ printed_new' = {}
       /\ missing_ids' = Keys(missing_objects')
       /\ new_ids' = Keys(new_objects')
       /\ UNCHANGED <<missing_frames_threshold, stability_frames>>

(***************************************************************************)
(* Observers: what the sequence of calls alone says about each identifier.  *)
(* They read the inputs and the printed lines, never the memory's counters. *)
(***************************************************************************)
ZeroRuns == [i \in Ids |-> 0]

ObsInit ==
    /\ last_op = "init"
    /\ last_input = {}
    /\ calls = 0
    /\ baseline_ids = {}
    /\ seen_ids = {}
    /\ absent_run = ZeroRuns
    /\ present_run = ZeroRuns
    /\ missing_events_in_run = ZeroRuns
    /\ new_events_in_run = ZeroRuns
    /\ reappeared_after = ZeroRuns
    /\ always_present = {}

ObserveUpdate(ids) ==
    LET n == calls + 1
        warm == n >= stability_frames          \* this call is evaluated
        base == IF n = stability_frames THEN ids ELSE baseline_ids
        absent(i) == warm /\ i \in seen_ids /\ i \notin ids
        appears(i) == warm /\ i \in ids /\ i \notin base
    IN /\ last_op' = "update"
       /\ last_input' = ids
       /\ calls' = n
       /\ baseline_ids' = base
       /\ seen_ids' = IF warm THEN seen_ids \cup ids ELSE {}
       /\ absent_run' = [i \in Ids |-> IF absent(i) THEN absent_run[i] + 1 ELSE 0]
       /\ missing_events_in_run' = [i \in Ids |->
             IF absent(i)
             THEN missing_events_in_run[i] + (IF i \in printed_missing' THEN 1 ELSE 0)
             ELSE 0]
       /\ present_run' = [i \in Ids |-> IF appears(i) THEN present_run[i] + 1 ELSE 0]
       /\ new_events_in_run' = [i \in Ids |->
             IF appears(i)
             THEN new_events_in_run[i] + (IF i \in printed_new' THEN 1 ELSE 0)
             ELSE 0]
       /\ reappeared_after' = [i \in Ids |->
             IF i \in ids /\ i \in Keys(missing_objects)
             THEN missing_objects[i].missing_frames
             ELSE reappeared_after[i]]
       /\ always_present' = IF calls = 0 THEN ids ELSE always_present \cap ids

ObserveReset ==
    /\ last_op' = "reset"
    /\ last_input' = {}
    /\ calls' = 0
    /\ baseline_ids' = {}
    /\ seen_ids' = {}
    /\ absent_run' = ZeroRuns
    /\ present_run' = ZeroRuns
    /\ missing_events_in_run' = ZeroRuns
    /\ new_events_in_run' = ZeroRuns
    /\ reappeared_after' = ZeroRuns
    /\ always_present' = {}

(***************************************************************************)
(* The tracker: src/trackers/deep_sort_tracker.py                           *)
(*                                                                          *)
(* Python lists are sequences; the code's 0-based positions d and t are the *)
(* 1-based positions d+1 and t+1 here.  An IoU is kept as the exact         *)
(* fraction num/den that line 234 divides, and compared by                  *)
(* cross-multiplication.  The code stores the quotient in a float32 matrix  *)
(* (line 253); the IoUs of the boxes used here (0, 1/4, 1/3, 1/2, 2/3, 3/4, *)
(* 1) keep their order, and their side of the thresholds 0.3 and 0.5, when  *)
(* rounded.  All boxes used have x1 < x2 and y1 < y2, so den > 0.           *)
(*                                                                          *)
(* The arithmetic of cv2.KalmanFilter is outside the repository.  Where the *)
(* linear update fixes the result (zero velocity, or a measurement equal to *)
(* the predicted box) the estimate is computed; elsewhere it is any box of  *)
(* Boxes.                                                                   *)
(***************************************************************************)
Max(a, b) == IF a >= b THEN a ELSE b
Min(a, b) == IF a <= b THEN a ELSE b

\* (variant for C17: the intersection's sides are not clipped at 0)
CalculateIoU_Unclipped(boxA, boxB) ==
    LET xA == Max(boxA[1], boxB[1])
        yA == Max(boxA[2], boxB[2])
        xB == Min(boxA[3], boxB[3])
        yB == Min(boxA[4], boxB[4])
        interArea == (xB - xA) * (yB - yA)
        boxAArea == (boxA[3] - boxA[1]) * (boxA[4] - boxA[2])
        boxBArea == (boxB[3] - boxB[1]) * (boxB[4] - boxB[2])
    IN [num |-> interArea, den |-> boxAArea + boxBArea - interArea]

\* (variant for C18: the union is taken from the first box alone)
CalculateIoU_FirstBoxOnly(boxA, boxB) ==
    LET xA == Max(boxA[1], boxB[1])
        yA == Max(boxA[2], boxB[2])
        xB == Min(boxA[3], boxB[3])
        yB == Min(boxA[4], boxB[4])
        interArea == Max(0, xB - xA) * Max(0, yB - yA)
        boxAArea == (boxA[3] - boxA[1]) * (boxA[4] - boxA[2])
    IN [num |-> interArea, den |-> boxAArea + boxAArea - interArea]

\* DeepSORTTracker._calculate_iou, lines 219-236
CalculateIoU(boxA, boxB) ==
    LET xA == Max(boxA[1], boxB[1])
        yA == Max(boxA[2], boxB[2])
        xB == Min(boxA[3], boxB[3])
        yB == Min(boxA[4], boxB[4])
        interArea == Max(0, xB - xA) * Max(0, yB - yA)
        boxAArea == (boxA[3] - boxA[1]) * (boxA[4] - boxA[2])
        boxBArea == (boxB[3] - boxB[1]) * (boxB[4] - boxB[2])
    IN [num |-> interArea, den |-> boxAArea + boxBArea - interArea]

\* a > b for two fractions with positive denominators
FracGreater(a, b) == a.num * b.den > b.num * a.den
FracAtLeast(a, b) == a.num * b.den >= b.num * a.den

\* KalmanTracker.__init__, lines 20-25 and 59-64.  bbox stands for the
\* estimator's statePost read as a box (get_state, lines 174-177); steady says
\* that the velocity components of statePost are exactly 0.
KalmanTracker(bbox, track_id, class_id, confidence) ==
    [track_id |-> track_id, class_id |-> class_id, confidence |-> confidence,
     age |-> 0, time_since_update |-> 0,
     bbox |-> bbox, steady |-> TRUE, history |-> <<bbox>>]

\* cv2.KalmanFilter.predict (line 114): statePost := F * statePost.  With zero
\* velocity the box is unchanged; otherwise it moves, to a box the model does
\* not compute.
KfPredictChoices(trk) == IF trk.steady THEN {trk.bbox} ELSE Boxes

\* cv2.KalmanFilter.correct (line 151): statePost := statePre + K * (z - H * statePre).
\* A measurement equal to the predicted box leaves the state as it is;
\* any other measurement moves box and velocity.
KfCorrectChoices(trk, z) == IF trk.steady /\ z = trk.bbox THEN {trk.bbox} ELSE Boxes

\* KalmanTracker.predict, lines 109-114
Predict(trk, predicted) ==
    [trk EXCEPT !.age = IF trk.time_since_update > 0 THEN @ + 1 ELSE @,
                !.time_since_update = IF trk.time_since_update > 0 THEN @ + 1 ELSE @,
                !.bbox = predicted]

\* KalmanTracker.update, lines 153-156: history bounded to the last 5 boxes
TrackHistoryAppend(h, bbox) ==
    LET h1 == Append(h, bbox)
    IN IF Len(h1) > TrackHistoryCap THEN Tail(h1) ELSE h1

\* (variant for C33: the track keeps the class and confidence it was created with)
KalmanUpdate_KeepLabel(trk, det, corrected) ==
    [trk EXCEPT !.time_since_update = 0,
                !.age = @ + 1,
                !.steady = trk.steady /\ det.bbox = trk.bbox,
                !.bbox = corrected,
                !.history = TrackHistoryAppend(@, det.bbox)]

\* KalmanTracker.update, lines 136-156.  A detection carries a confidence and
\* a class_id, so the 'is not None' tests of lines 141 and 143 pass.
KalmanUpdate(trk, det, corrected) ==
    [trk EXCEPT !.time_since_update = 0,
                !.age = @ + 1,
                !.confidence = det.confidence,
                !.class_id = det.class_id,
                !.steady = trk.steady /\ det.bbox = trk.bbox,
                !.bbox = corrected,
                !.history = TrackHistoryAppend(@, det.bbox)]

\* KalmanTracker.get_state, lines 173-186
GetState(trk) ==
    [id |-> trk.track_id, bbox |-> trk.bbox, confidence |-> trk.confidence,
     class_id |-> trk.class_id, age |-> trk.age,
     time_since_update |-> trk.time_since_update]

\* lines 253-257: iou_matrix[d][t]
IouMatrix(detections, trks) ==
    [d \in 1..Len(detections) |->
        [t \in 1..Len(trks) |-> CalculateIoU(detections[d].bbox, GetState(trks[t]).bbox)]]

\* lines 266-272: the inner loop over unmatched_trackers, from position k on,
\* carrying best_iou and best_t (0 stands for the code's -1)
\* (variant for C29: >= in place of >, the last of several equal trackers wins)
RECURSIVE BestTracker_LastTie(_, _, _, _, _)
BestTracker_LastTie(row, unmatched_trackers, k, best_iou, best_t) ==
    IF k > Len(unmatched_trackers) THEN best_t
    ELSE LET t == unmatched_trackers[k]
         IN IF FracAtLeast(row[t], best_iou) /\ (best_t # 0 \/ FracGreater(row[t], best_iou))
            THEN BestTracker_LastTie(row, unmatched_trackers, k + 1, row[t], t)
            ELSE BestTracker_LastTie(row, unmatched_trackers, k + 1, best_iou, best_t)

RECURSIVE BestTracker(_, _, _, _, _)
BestTracker(row, unmatched_trackers, k, best_iou, best_t) ==
    IF k > Len(unmatched_trackers) THEN best_t
    ELSE LET t == unmatched_trackers[k]
         IN IF FracGreater(row[t], best_iou)
            THEN BestTracker(row, unmatched_trackers, k + 1, row[t], t)
            ELSE BestTracker(row, unmatched_trackers, k + 1, best_iou, best_t)

\* (variant for C7: the matched tracker stays available)
RemoveTracker_Forgotten(unmatched_trackers, best_t) == unmatched_trackers

\* line 276: unmatched_trackers.remove(best_t)
RemoveTracker(unmatched_trackers, best_t) ==
    SelectSeq(unmatched_trackers, LAMBDA t : t # best_t)

\* lines 265-278: the loop over the detections, from detection d on
RECURSIVE AssignLoop(_, _, _, _)
AssignLoop(iou_matrix, threshold, d, acc) ==
    IF d > Len(iou_matrix) THEN acc
    ELSE LET best_t == BestTracker(iou_matrix[d], acc.unmatched_trackers, 1, threshold, 0)
         IN IF best_t >= 1
            THEN AssignLoop(iou_matrix, threshold, d + 1,
                    [acc EXCEPT !.matches = Append(@, <<d, best_t>>),
                                !.unmatched_trackers = RemoveTracker(@, best_t)])
            ELSE AssignLoop(iou_matrix, threshold, d + 1,
                    [acc EXCEPT !.unmatched_detections = Append(@, d)])

\* DeepSORTTracker._assign_detections_to_trackers, lines 249-280
AssignDetectionsToTrackers(detections, trks, threshold) ==
    IF Len(trks) = 0 \/ Len(detections) = 0
    THEN [matches |-> <<>>,
          unmatched_detections |-> [d \in 1..Len(detections) |-> d],
          unmatched_trackers |-> [t \in 1..Len(trks) |-> t]]
    ELSE AssignLoop(IouMatrix(detections, trks), threshold, 1,
                    [matches |-> <<>>,
                     unmatched_detections |-> <<>>,
                     unmatched_trackers |-> [t \in 1..Len(trks) |-> t]])

\* (variant for C13: no tracker is ever dropped)
IsActive_Always(trk) == TRUE

\* lines 299 and 332: not lost for too long
IsActive(trk) == trk.time_since_update <= max_age

\* (variant for C12: every tracker that is old enough is returned)
IsReported_AgeOnly(trk) == trk.age >= min_hits

\* line 340: only objects that have been tracked for min_hits frames
IsReported(trk) == trk.age >= min_hits /\ trk.time_since_update <= 1

\* (variant for C6: next_id is not advanced)
NextIdAfter_Same(id) == id

\* line 328: self.next_id += 1
NextIdAfter(id) == id + 1

\* lines 320-329: one new tracker per unmatched detection, ids from next_id on
RECURSIVE SpawnTrackers(_, _, _, _)
SpawnTrackers(detections, unmatched_detections, k, id) ==
    IF k > Len(unmatched_detections) THEN <<>>
    ELSE LET det == detections[unmatched_detections[k]]
         IN <<KalmanTracker(det.bbox, id, det.class_id, det.confidence)>>
            \o SpawnTrackers(detections, unmatched_detections, k + 1, NextIdAfter(id))

RECURSIVE IdAfterSpawning(_, _)
IdAfterSpawning(n, id) == IF n = 0 THEN id ELSE IdAfterSpawning(n - 1, NextIdAfter(id))

\* the detection matched to active tracker t, or 0
MatchedDetection(matches, t) ==
    IF \E k \in 1..Len(matches) : matches[k][2] = t
    THEN matches[CHOOSE k \in 1..Len(matches) : matches[k][2] = t][1]
    ELSE 0

\* (variant for C10: an unmatched tracker is left as it is)
AgeUnmatched_Forgotten(trk) == trk

\* lines 315-317: an unmatched tracker ages without correction
AgeUnmatched(trk) ==
    [trk EXCEPT !.age = @ + 1, !.time_since_update = @ + 1]

\* The estimator outcomes one update call can meet: a predicted box per
\* tracker of the registry.
BoxesOf(trks) == Boxes \cup {trks[k].bbox : k \in 1..Len(trks)}

PredictChoices(trks) ==
    {p \in [1..Len(trks) -> BoxesOf(trks)] :
        \A k \in 1..Len(trks) : p[k] \in KfPredictChoices(trks[k])}

\* ... and a corrected box per matched active tracker (the predicted box
\* stands for the unmatched ones, which are not corrected).
CorrectChoices(active, detections, matches) ==
    {c \in [1..Len(active) -> BoxesOf(active)] :
        \A t \in 1..Len(active) :
            LET d == MatchedDetection(matches, t)
            IN IF d = 0 THEN c[t] = active[t].bbox
               ELSE c[t] \in KfCorrectChoices(active[t], detections[d].bbox)}

\* DeepSORTTracker.update, lines 306-343, for one choice of corrected boxes:
\* the registry, next_id and the returned list after the call, with the
\* call's locals active_trackers (line 299) and the triple of line 302.
FinishUpdate(active_trackers, asg, id, detections, corrected) ==
    LET updated == [t \in 1..Len(active_trackers) |->
                      LET d == MatchedDetection(asg.matches, t)
                      IN IF d # 0
                         THEN KalmanUpdate(active_trackers[t], detections[d], corrected[t])
                         ELSE AgeUnmatched(active_trackers[t])]
        spawned == SpawnTrackers(detections, asg.unmatched_detections, 1, id)
        alive == SelectSeq(updated \o spawned, IsActive)
        reported == SelectSeq(alive, IsReported)
    IN [trackers |-> alive,
        next_id |-> IdAfterSpawning(Len(asg.unmatched_detections), id),
        tracked_objects |-> [k \in 1..Len(reported) |-> GetState(reported[k])],
        active_trackers |-> active_trackers,
        asg |-> asg]

\* DeepSORTTracker.update, lines 294-304 and then FinishUpdate, over every
\* estimator outcome.
UpdateResults(trks, id, detections) ==
    UNION {
         LET afterPredict == [k \in 1..Len(trks) |-> Predict(trks[k], p[k])]
             active_trackers == SelectSeq(afterPredict, IsActive)
             asg == AssignDetectionsToTrackers(detections, active_trackers, iou_threshold)
         IN {FinishUpdate(active_trackers, asg, id, detections, c) :
                c \in CorrectChoices(active_trackers, detections, asg.matches)}
         : p \in PredictChoices(trks)}

\* DeepSORTTracker.__init__, lines 200-206
TrkFresh ==
    /\ trackers = <<>>
    /\ next_id = 1
    /\ trk_frame_count = 0
    /\ trk_output = <<>>

\* DeepSORTTracker.update(detections)
TrkUpdate(detections) ==
    \E r \in UpdateResults(trackers, next_id, detections) :
        /\ trk_frame_count' = trk_frame_count + 1
        /\ trackers' = r.trackers
        /\ next_id' = r.next_id
        /\ trk_output' = r.tracked_objects
        /\ UNCHANGED <<max_age, min_hits, iou_threshold>>

(***************************************************************************)
(* Observers of the tracker's calls.                                        *)
(***************************************************************************)
TrkObsInit ==
    /\ issued_ids = <<>>
    /\ confirmed_ids = {}
    /\ empty_run = 0
    /\ single_run = 0
    /\ first_box = <<>>
    /\ ids_before_run = {}
    /\ gaps = 0

\* A tracker has age 0 only in the call that creates it: every later call
\* adds to its age (lines 138, 316).
ObserveTrk(detections) ==
    LET created == SelectSeq(trackers', LAMBDA trk : trk.age = 0)
        same == /\ single_run = trk_frame_count
                /\ Len(detections) = 1
                /\ (trk_frame_count = 0 \/ detections[1].bbox = first_box)
    IN /\ issued_ids' = issued_ids \o [k \in 1..Len(created) |-> created[k].track_id]
       /\ confirmed_ids' = confirmed_ids \cup {trk_output'[k].id : k \in 1..Len(trk_output')}
       /\ empty_run' = IF Len(detections) = 0 THEN empty_run + 1 ELSE 0
       /\ single_run' = IF same THEN single_run + 1 ELSE single_run
       /\ first_box' = IF trk_frame_count = 0 /\ Len(detections) = 1
                       THEN detections[1].bbox ELSE first_box
       /\ ids_before_run' = IF Len(detections) = 0 THEN ids_before_run
                            ELSE {trackers'[k].track_id : k \in 1..Len(trackers')}
       /\ gaps' = IF Len(detections) = 0 /\ empty_run = 0 THEN gaps + 1 ELSE gaps

(***************************************************************************)
(* SceneMonitor: src/engine/scene_monitor.py.  Its baseline_memory is the   *)
(* memory above; last_update_time and 'uptime' are wall-clock values and    *)
(* are left out.                                                            *)
(***************************************************************************)
NoHistory == [asked |-> FALSE, obj_id |-> 0, history |-> <<>>]

\* SceneMonitor.__init__, lines 22-24
SMFresh ==
    /\ total_missing_objects = 0
    /\ total_new_objects = 0
    /\ sm_frame_count = 0
    /\ got_history = NoHistory

\* (variant for C25: the metric is the size of the last list)
PeakAfter_Latest(peak, n) == n

\* lines 57-58 and 60-61: the metric after a call that returned n records
PeakAfter(peak, n) == IF n > 0 THEN Max(peak, n) ELSE peak

\* SceneMonitor.process_frame, lines 51-63
SMProcessFrame(current_objects) ==
    /\ sm_frame_count' = sm_frame_count + 1
    /\ BMUpdate(current_objects)
    /\ total_missing_objects' =
          PeakAfter(total_missing_objects, Cardinality(Keys(missing_objects')))
    /\ total_new_objects' =
          PeakAfter(total_new_objects, Cardinality(Keys(new_objects')))
    /\ got_history' = NoHistory

\* (variant for C24: only the memory is reset)
SMReset_MemoryOnly ==
    /\ BMReset
    /\ got_history' = NoHistory
    /\ UNCHANGED <<total_missing_objects, total_new_objects, sm_frame_count>>

\* SceneMonitor.reset, lines 30-34
SMReset ==
    /\ BMReset
    /\ total_missing_objects' = 0
    /\ total_new_objects' = 0
    /\ sm_frame_count' = 0
    /\ got_history' = NoHistory

\* SceneMonitor.get_metrics, lines 72-77
GetMetrics ==
    [total_missing_objects |-> total_missing_objects,
     total_new_objects |-> total_new_objects,
     frames_processed |-> sm_frame_count]

\* (variant for C23: object_history[obj_id], which makes a defaultdict
\* insert an empty list under a key it does not hold)
HistoryTableAfterGet_Inserting(history, obj_id) ==
    [i \in Keys(history) \cup {obj_id} |->
        IF i \in Keys(history) THEN history[i] ELSE <<>>]

\* baseline_memory.py line 197: dict.get leaves the defaultdict as it is
HistoryTableAfterGet(history, obj_id) == history

\* BaselineMemory.get_object_history, line 197, through
\* SceneMonitor.get_object_history, line 89
GetObjectHistory(obj_id) ==
    /\ got_history' = [asked |-> TRUE, obj_id |-> obj_id,
                       history |-> IF obj_id \in Keys(object_history)
                                   THEN object_history[obj_id] ELSE <<>>]
    /\ object_history' = HistoryTableAfterGet(object_history, obj_id)
    /\ UNCHANGED <<missing_frames_threshold, stability_frames, tracked_objects,
                   missing_objects, new_objects, is_baseline_established,
                   frame_count, printed_missing, printed_new, missing_ids, new_ids,
                   total_missing_objects, total_new_objects, sm_frame_count>>

(***************************************************************************)
(* Observers of the monitor's calls: the sizes of the lists it returned.    *)
(***************************************************************************)
SMObsInit ==
    /\ missing_counts = {}
    /\ new_counts = {}

ObserveFrame ==
    /\ missing_counts' = missing_counts \cup {Cardinality(missing_ids')}
    /\ new_counts' = new_counts \cup {Cardinality(new_ids')}

ObserveSMReset ==
    /\ missing_counts' = {}
    /\ new_counts' = {}

(***************************************************************************)
(* Parts that a specification leaves untouched.                             *)
(***************************************************************************)
SMIdle ==
    /\ SMFresh
    /\ SMObsInit

AllBuilt == built = {"tracker", "monitor"}

\* AlertNotifier.__init__, line 14
AnIdle ==
    /\ alerts = <<>>
    /\ added_alerts = {}
    /\ input_changes = 0

\* PerformanceTimer.__init__, lines 60-61, for the four timers of
\* InferenceEngine.__init__; 0 stands for a start_time of None
NewTimer == [start_time |-> 0, elapsed |-> 0]

PfIdle ==
    /\ pf_frames = 0
    /\ pf_stage = 0
    /\ pf_locals = {}
    /\ pf_timers = [s \in 1..4 |-> NewTimer]
    /\ pf_result = "none"
    /\ pf_failed = {}

BMIdle ==
    /\ missing_frames_threshold = 15   \* the defaults of lines 18-19
    /\ stability_frames = 5
    /\ BMFresh
    /\ ObsInit

TrkIdle ==
    /\ max_age = 30                    \* the defaults of lines 200-202
    /\ min_hits = 3
    /\ iou_threshold = [num |-> 3, den |-> 10]
    /\ TrkFresh
    /\ TrkObsInit

AsgIdle ==
    /\ asg_detections = <<>>
    /\ asg_trackers = <<>>
    /\ asg_done = FALSE
    /\ asg_result = [matches |-> <<>>, unmatched_detections |-> <<>>,
                     unmatched_trackers |-> <<>>]

IouIdle ==
    /\ iou_boxA = <<0, 0, 1, 1>>
    /\ iou_boxB = <<0, 0, 1, 1>>
    /\ iou_done = FALSE
    /\ iou_result = [outcome |-> "none", num |-> 0, den |-> 1]

(***************************************************************************)
(* Spec: the baseline memory driven by arbitrary per-frame identifier sets. *)
(***************************************************************************)
Update ==
    /\ frame_count < MaxFrames
    /\ \E ids \in SUBSET Ids :
          /\ BMUpdate(CurrentObjects(ids))
          /\ ObserveUpdate(ids)
    /\ UNCHANGED <<trkVars, asgVars, trkObsVars, iouVars, smVars, smObsVars, anVars, pfVars, built>>

Reset ==
    /\ frame_count > 0
    /\ BMReset
    /\ ObserveReset
    /\ UNCHANGED <<trkVars, asgVars, trkObsVars, iouVars, smVars, smObsVars, anVars, pfVars, built>>

Init ==
    BMInit /\ ObsInit /\ TrkIdle /\ AsgIdle /\ IouIdle /\ SMIdle /\ AllBuilt /\ AnIdle /\ PfIdle

Next == Update \/ Reset

Spec == Init /\ [][Next]_vars

(***************************************************************************)
(* SpecTracker: the tracker driven by arbitrary detection lists.            *)
(***************************************************************************)
Detections == [bbox : Boxes, class_id : Classes, confidence : Confidences]

DetectionLists == UNION {[1..n -> Detections] : n \in FrameDetCounts}

TrackerInit ==
    /\ max_age \in MaxAgeValues
    /\ min_hits \in MinHitsValues
    /\ iou_threshold = [num |-> 3, den |-> 10]
    /\ TrkFresh
    /\ TrkObsInit
    /\ BMIdle
    /\ AsgIdle
    /\ IouIdle
    /\ SMIdle
    /\ AllBuilt
    /\ AnIdle
    /\ PfIdle

TrackerUpdate ==
    /\ trk_frame_count < MaxTrkFrames
    /\ \E detections \in DetectionLists :
          /\ TrkUpdate(detections)
          /\ next_id' <= MaxId + 1
          /\ ObserveTrk(detections)
    /\ UNCHANGED <<bmVars, obsVars, asgVars, iouVars, smVars, smObsVars, anVars, pfVars, built>>

TrackerNext == TrackerUpdate

SpecTracker == TrackerInit /\ [][TrackerNext]_vars

(***************************************************************************)
(* SpecScenario: the scenario of section 8 (min_hits=3, iou_threshold=0.3,  *)
(* max_age=5): each frame either holds the one stationary box or nothing.   *)
(***************************************************************************)
ScenarioDetection == [bbox |-> ScenarioBox, class_id |-> 0, confidence |-> 9]

ScenarioInit ==
    /\ max_age = 5
    /\ min_hits = 3
    /\ iou_threshold = [num |-> 3, den |-> 10]
    /\ TrkFresh
    /\ TrkObsInit
    /\ BMIdle
    /\ AsgIdle
    /\ IouIdle
    /\ SMIdle
    /\ AllBuilt
    /\ AnIdle
    /\ PfIdle

FeedBox ==
    /\ trk_frame_count < ScenarioFrames
    /\ TrkUpdate(<<ScenarioDetection>>)
    /\ ObserveTrk(<<ScenarioDetection>>)
    /\ UNCHANGED <<bmVars, obsVars, asgVars, iouVars, smVars, smObsVars, anVars, pfVars, built>>

FeedNothing ==
    /\ trk_frame_count < ScenarioFrames
    /\ TrkUpdate(<<>>)
    /\ ObserveTrk(<<>>)
    /\ UNCHANGED <<bmVars, obsVars, asgVars, iouVars, smVars, smObsVars, anVars, pfVars, built>>

ScenarioNext == FeedBox \/ FeedNothing

SpecScenario == ScenarioInit /\ [][ScenarioNext]_vars

(***************************************************************************)
(* SpecAssign: _assign_detections_to_trackers applied once to every list of *)
(* detections and of trackers within the bounds.                            *)
(***************************************************************************)
AsgDetectionLists ==
    UNION {[1..n -> [bbox : AsgBoxes, class_id : {0}, confidence : {9}]] : n \in 0..MaxDets}

AsgTrackerLists ==
    UNION {{[k \in 1..n |-> KalmanTracker(b[k], k, 0, 9)] : b \in [1..n -> AsgBoxes]}
              : n \in 0..MaxAsgTrackers}

AssignInit ==
    /\ max_age = 30
    /\ min_hits = 3
    /\ iou_threshold \in {[num |-> 3, den |-> 10], [num |-> 5, den |-> 10]}
    /\ trackers \in AsgTrackerLists
    /\ next_id = Len(trackers) + 1
    /\ trk_frame_count = 1
    /\ trk_output = <<>>
    /\ TrkObsInit
    /\ asg_detections \in AsgDetectionLists
    /\ asg_trackers = trackers
    /\ asg_done = FALSE
    /\ asg_result = [matches |-> <<>>, unmatched_detections |-> <<>>,
                     unmatched_trackers |-> <<>>]
    /\ BMIdle
    /\ IouIdle
    /\ SMIdle
    /\ AllBuilt
    /\ AnIdle
    /\ PfIdle

Assign ==
    /\ ~asg_done
    /\ asg_done' = TRUE
    /\ asg_result' = AssignDetectionsToTrackers(asg_detections, asg_trackers, iou_threshold)
    /\ UNCHANGED <<asg_detections, asg_trackers, bmVars, obsVars, trkVars, trkObsVars, iouVars, smVars, smObsVars,
                   anVars, pfVars, built>>

AssignNext == Assign

SpecAssign == AssignInit /\ [][AssignNext]_vars

(***************************************************************************)
(* SpecPipeline: InferenceEngine._process_frame (src/engine/inference.py)   *)
(* with the default configuration: the detector's list goes to the tracker, *)
(* the tracker's list to SceneMonitor.process_frame, which hands it to the  *)
(* memory.  Each frame the detector reports the one stationary object or    *)
(* nothing; the object is withdrawn in at most MaxGaps runs of frames.      *)
(***************************************************************************)
\* baseline_memory.py line 63: {obj['id']: obj for obj in tracked_objects}
ObjectsById(tracked_list) ==
    [i \in {tracked_list[k].id : k \in 1..Len(tracked_list)} |->
        tracked_list[CHOOSE k \in 1..Len(tracked_list) :
                        /\ tracked_list[k].id = i
                        /\ \A j \in (k + 1)..Len(tracked_list) : tracked_list[j].id # i]]

PipelineInit ==
    /\ max_age = 30
    /\ min_hits = 3
    /\ iou_threshold = [num |-> 3, den |-> 10]
    /\ TrkFresh
    /\ TrkObsInit
    /\ missing_frames_threshold = 15
    /\ stability_frames = 5
    /\ BMFresh
    /\ ObsInit
    /\ AsgIdle
    /\ IouIdle
    /\ SMIdle
    /\ AllBuilt
    /\ AnIdle
    /\ PfIdle

\* inference.py lines 155-163, scene_monitor.py line 54
ProcessFrame(detections) ==
    /\ trk_frame_count < PipelineFrames
    /\ TrkUpdate(detections)
    /\ ObserveTrk(detections)
    /\ SMProcessFrame(ObjectsById(trk_output'))
    /\ ObserveUpdate(Keys(ObjectsById(trk_output')))
    /\ ObserveFrame
    /\ UNCHANGED <<asgVars, iouVars, anVars, pfVars, built>>

ObjectSeen == ProcessFrame(<<ScenarioDetection>>)

ObjectUnseen ==
    /\ empty_run > 0 \/ gaps < MaxGaps
    /\ ProcessFrame(<<>>)

PipelineNext == ObjectSeen \/ ObjectUnseen

SpecPipeline == PipelineInit /\ [][PipelineNext]_vars

(***************************************************************************)
(* SpecIoU: _calculate_iou applied once to every pair of boxes with integer *)
(* coordinates in 0..MaxCoord, x1 <= x2 and y1 <= y2.                       *)
(***************************************************************************)
IntBoxes ==
    {<<x1, y1, x2, y2>> : x1 \in 0..MaxCoord, y1 \in 0..MaxCoord,
                          x2 \in 0..MaxCoord, y2 \in 0..MaxCoord}

CoordBoxes == {b \in IntBoxes : b[1] <= b[3] /\ b[2] <= b[4]}

\* line 234: iou = interArea / float(boxAArea + boxBArea - interArea).  The
\* divisor is a Python float.  When it is 0.0 a Python dividend raises
\* ZeroDivisionError and a numpy dividend yields nan with a RuntimeWarning;
\* which one interArea is depends on the coordinates' type, which is not
\* part of the state.
Quotient(f) ==
    IF f.den = 0
    THEN {[outcome |-> "ZeroDivisionError", num |-> f.num, den |-> f.den],
          [outcome |-> "nan", num |-> f.num, den |-> f.den]}
    ELSE {[outcome |-> "value", num |-> f.num, den |-> f.den]}

IoUInit ==
    /\ iou_boxA \in CoordBoxes
    /\ iou_boxB \in CoordBoxes
    /\ iou_done = FALSE
    /\ iou_result = [outcome |-> "none", num |-> 0, den |-> 1]
    /\ BMIdle
    /\ TrkIdle
    /\ AsgIdle
    /\ SMIdle
    /\ AllBuilt
    /\ AnIdle
    /\ PfIdle

ComputeIoU ==
    /\ ~iou_done
    /\ iou_done' = TRUE
    /\ iou_result' \in Quotient(CalculateIoU(iou_boxA, iou_boxB))
    /\ UNCHANGED <<iou_boxA, iou_boxB, bmVars, obsVars, trkVars, asgVars, trkObsVars,
                   smVars, smObsVars, anVars, pfVars, built>>

IoUNext == ComputeIoU

SpecIoU == IoUInit /\ [][IoUNext]_vars

(***************************************************************************)
(* Claims about the baseline memory, checked under Spec.                    *)
(***************************************************************************)

\* C1: after any sequence of update calls no identifier is at once in the
\* missing bookkeeping (missing_objects, returned missing_ids) and in the new
\* bookkeeping (new_objects, returned new_ids).
C1_NeverMissingAndNew ==
    /\ Keys(missing_objects) \cap Keys(new_objects) = {}
    /\ missing_ids \cap new_ids = {}

\* C2: for every missing_object_frames value and every known identifier, an
\* uninterrupted run of absent calls has produced no confirmed-missing event
\* while it is shorter than missing_object_frames and exactly one from the
\* call on in which its length reaches missing_object_frames.
C2_OneMissingEventPerAbsence ==
    \A i \in Ids :
        /\ absent_run[i] < missing_frames_threshold => missing_events_in_run[i] = 0
        /\ absent_run[i] >= missing_frames_threshold => missing_events_in_run[i] = 1

\* C3: an identifier outside the baseline that appears in consecutive calls
\* has produced no confirmed-new event while the run is shorter than
\* stability_frames and exactly one from the call on in which the run reaches
\* stability_frames.
C3_OneNewEventPerAppearance ==
    \A i \in Ids :
        /\ present_run[i] < stability_frames => new_events_in_run[i] = 0
        /\ present_run[i] >= stability_frames => new_events_in_run[i] = 1

\* C4: an identifier outside the baseline that has appeared in more than
\* 3 x stability_frames consecutive calls is no longer bookkept or returned
\* as new.
C4_NewEvictedAfterThreeStability ==
    \A i \in Ids :
        present_run[i] > 3 * stability_frames =>
            i \notin Keys(new_objects) /\ i \notin new_ids

\* C5: an identifier that is in the missing bookkeeping before an update call
\* and is in that call's input is in neither the missing records nor the
\* missing_ids the call returns; and whenever an identifier enters the missing
\* bookkeeping, its episode starts with missing_frames = 1.
C5_ReappearClearsMissing ==
    [][\A i \in Ids :
          /\ (last_op' = "update" /\ i \in Keys(missing_objects) /\ i \in last_input')
                => (i \notin Keys(missing_objects') /\ i \notin missing_ids')
          /\ (i \notin Keys(missing_objects) /\ i \in Keys(missing_objects'))
                => missing_objects'[i].missing_frames = 1]_vars

\* C5 witness: an identifier reappeared when it was confirmed missing, and is
\* absent again, in a fresh episode.
C5_Witness ==
    \E i \in Ids :
        /\ missing_frames_threshold >= 2
        /\ reappeared_after[i] >= missing_frames_threshold
        /\ i \in missing_ids
        /\ missing_objects[i].missing_frames = 1

(***************************************************************************)
(* Claims about the tracker.                                                *)
(***************************************************************************)
RegistryIds == {trackers[k].track_id : k \in 1..Len(trackers)}
OutputIds == {trk_output[k].id : k \in 1..Len(trk_output)}

\* C6 (SpecTracker): every tracker created gets an identifier greater than all
\* identifiers issued before it, no two trackers of the registry share an
\* identifier, every registry identifier was issued, and the next identifier
\* to issue is greater than all issued ones (so none is issued again).
C6_IdentifiersStrictlyIncrease ==
    /\ \A k \in 1..(Len(issued_ids) - 1) : issued_ids[k] < issued_ids[k + 1]
    /\ \A j, k \in 1..Len(trackers) : j # k => trackers[j].track_id # trackers[k].track_id
    /\ \A k \in 1..Len(trackers) :
          \E j \in 1..Len(issued_ids) : issued_ids[j] = trackers[k].track_id
    /\ \A k \in 1..Len(issued_ids) : issued_ids[k] < next_id

\* C6 witness: a tracker was purged and a tracker created later is live.
C6_Witness ==
    \E j, k \in 1..Len(issued_ids) :
        /\ j < k
        /\ issued_ids[j] \notin RegistryIds
        /\ issued_ids[k] \in RegistryIds

\* C7 (SpecAssign): the returned matches hold each detection position at most
\* once and each tracker position at most once, and the IoU of every match is
\* at least iou_threshold.
C7_MatchesDisjointAndGated ==
    asg_done =>
        LET m == asg_result.matches
        IN /\ \A j, k \in 1..Len(m) : j # k => (m[j][1] # m[k][1] /\ m[j][2] # m[k][2])
           /\ \A k \in 1..Len(m) :
                 FracAtLeast(CalculateIoU(asg_detections[m[k][1]].bbox,
                                          trackers[m[k][2]].bbox),
                             iou_threshold)

\* C7 witness: two detections were matched, to two trackers.
C7_Witness == asg_done /\ Len(asg_result.matches) = 2

\* The reference procedure of C8: repeatedly commit the remaining pair with
\* the highest IoU while it meets the threshold (ties: lowest detection, then
\* lowest tracker).
RECURSIVE GreedyReference(_, _, _, _)
GreedyReference(iou, dets, trks, threshold) ==
    LET cands == {p \in dets \X trks : FracAtLeast(iou[p[1]][p[2]], threshold)}
        before(p, q) == \/ FracGreater(iou[p[1]][p[2]], iou[q[1]][q[2]])
                        \/ /\ ~FracGreater(iou[q[1]][q[2]], iou[p[1]][p[2]])
                           /\ (p[1] < q[1] \/ (p[1] = q[1] /\ p[2] <= q[2]))
    IN IF cands = {} THEN {}
       ELSE LET best == CHOOSE p \in cands : \A q \in cands : before(p, q)
            IN {best} \cup GreedyReference(iou, dets \ {best[1]}, trks \ {best[2]}, threshold)

\* C8 (SpecAssign): the set of matches of the association step equals the
\* result of the reference procedure that repeatedly commits the remaining
\* pair with the globally highest IoU while that IoU meets the threshold.
C8_MatchesAreGlobalGreedy ==
    asg_done =>
        {asg_result.matches[k] : k \in 1..Len(asg_result.matches)}
          = GreedyReference(IouMatrix(asg_detections, trackers),
                            1..Len(asg_detections), 1..Len(trackers), iou_threshold)

\* C9 (SpecScenario): with min_hits=3, iou_threshold=0.3, max_age=5 and the
\* same box fed alone in every call so far, the outputs of the first and the
\* second call are empty and the output of the third call holds exactly one
\* track, with the identifier issued in the first call.
C9_ConfirmedInThirdFrame ==
    (single_run = trk_frame_count /\ trk_frame_count >= 1) =>
        /\ trk_frame_count \in {1, 2} => trk_output = <<>>
        /\ trk_frame_count = 3 =>
              (Len(trk_output) = 1 /\ trk_output[1].id = issued_ids[1])

\* C10 (SpecScenario): with max_age=5, once 6 or more consecutive calls with
\* no detection have been made, no track that was ever confirmed (returned by
\* an update call) is in the registry or in the output.
C10_PurgedAfterSixEmptyFrames ==
    empty_run >= 6 =>
        \A i \in confirmed_ids : i \notin RegistryIds /\ i \notin OutputIds

\* C10 witness: a track was confirmed and exactly 6 empty calls followed.
C10_Witness == empty_run = 6 /\ confirmed_ids # {}

(***************************************************************************)
(* SpecDrift: the tracker fed one box per frame, B1 or B3 (IoU 1/2), with   *)
(* max_age = 0: the boxes a track observes differ from frame to frame.      *)
(***************************************************************************)
DriftDetection(b) == [bbox |-> b, class_id |-> 0, confidence |-> 9]

DriftInit ==
    /\ max_age = 0
    /\ min_hits = 3
    /\ iou_threshold = [num |-> 3, den |-> 10]
    /\ TrkFresh
    /\ TrkObsInit
    /\ BMIdle
    /\ AsgIdle
    /\ IouIdle
    /\ SMIdle
    /\ AllBuilt
    /\ AnIdle
    /\ PfIdle

FeedDrifting ==
    /\ trk_frame_count < DriftFrames
    /\ \E b \in {B1, B3} :
          /\ TrkUpdate(<<DriftDetection(b)>>)
          /\ ObserveTrk(<<DriftDetection(b)>>)
    /\ UNCHANGED <<bmVars, obsVars, asgVars, iouVars, smVars, smObsVars, anVars, pfVars, built>>

DriftNext == FeedDrifting

SpecDrift == DriftInit /\ [][DriftNext]_vars

(***************************************************************************)
(* SpecMonitor: the SceneMonitor driven by arbitrary per-frame identifier   *)
(* sets, resets and history queries.                                        *)
(***************************************************************************)
QueryIds == Ids \cup {3}

MonitorInit ==
    /\ BMInit
    /\ ObsInit
    /\ SMFresh
    /\ SMObsInit
    /\ TrkIdle
    /\ AsgIdle
    /\ IouIdle
    /\ AllBuilt
    /\ AnIdle
    /\ PfIdle

MonitorFrame ==
    /\ sm_frame_count < MonitorFrames
    /\ \E ids \in SUBSET Ids :
          /\ SMProcessFrame(CurrentObjects(ids))
          /\ ObserveUpdate(ids)
    /\ ObserveFrame
    /\ UNCHANGED <<trkVars, asgVars, trkObsVars, iouVars, anVars, pfVars, built>>

MonitorReset ==
    /\ sm_frame_count > 0
    /\ SMReset
    /\ ObserveReset
    /\ ObserveSMReset
    /\ UNCHANGED <<trkVars, asgVars, trkObsVars, iouVars, anVars, pfVars, built>>

MonitorGetHistory ==
    /\ \E obj_id \in QueryIds : GetObjectHistory(obj_id)
    /\ last_op' = "get_object_history"
    /\ UNCHANGED <<last_input, calls, baseline_ids, seen_ids, absent_run, present_run,
                   missing_events_in_run, new_events_in_run, reappeared_after,
                   always_present>>
    /\ UNCHANGED <<trkVars, asgVars, trkObsVars, iouVars, smObsVars, anVars, pfVars, built>>

MonitorNext == MonitorFrame \/ MonitorReset \/ MonitorGetHistory

SpecMonitor == MonitorInit /\ [][MonitorNext]_vars

(***************************************************************************)
(* SpecConstruct: the constructors applied to configuration dictionaries.   *)
(* A dictionary is a record of values with the set of keys it holds; until  *)
(* a component is built its fields carry no meaning.                        *)
(***************************************************************************)
ConfigInts == {-1, 0, 5}
ConfigFractions == {[num |-> -1, den |-> 10], [num |-> 3, den |-> 10],
                    [num |-> 11, den |-> 10]}

TrackerConfigs ==
    [present : SUBSET {"max_age", "min_hits", "iou_threshold"},
     max_age : ConfigInts, min_hits : ConfigInts, iou_threshold : ConfigFractions]

MonitorConfigs ==
    [present : SUBSET {"missing_object_frames", "stability_frames"},
     missing_object_frames : ConfigInts, stability_frames : ConfigInts]

\* dict.get(key, default)
ConfigGet(config, key, default) ==
    IF key \in config.present THEN config[key] ELSE default

\* DeepSORTTracker.__init__, lines 200-206
ConstructTracker ==
    /\ "tracker" \notin built
    /\ \E config \in TrackerConfigs :
          /\ max_age' = ConfigGet(config, "max_age", 30)
          /\ min_hits' = ConfigGet(config, "min_hits", 3)
          /\ iou_threshold' = ConfigGet(config, "iou_threshold", [num |-> 3, den |-> 10])
    /\ trackers' = <<>>
    /\ next_id' = 1
    /\ trk_frame_count' = 0
    /\ built' = built \cup {"tracker"}
    /\ UNCHANGED <<trk_output, bmVars, obsVars, asgVars, trkObsVars, iouVars,
                   smVars, smObsVars, anVars, pfVars>>

\* SceneMonitor.__init__, lines 17-24, and BaselineMemory.__init__, lines 18-30
ConstructMonitor ==
    /\ "monitor" \notin built
    /\ \E config \in MonitorConfigs :
          /\ missing_frames_threshold' = ConfigGet(config, "missing_object_frames", 15)
          /\ stability_frames' = ConfigGet(config, "stability_frames", 5)
    /\ tracked_objects' = EmptyDict
    /\ object_history' = EmptyDict
    /\ missing_objects' = EmptyDict
    /\ new_objects' = EmptyDict
    /\ is_baseline_established' = FALSE
    /\ frame_count' = 0
    /\ total_missing_objects' = 0
    /\ total_new_objects' = 0
    /\ sm_frame_count' = 0
    /\ built' = built \cup {"monitor"}
    /\ UNCHANGED <<printed_missing, printed_new, missing_ids, new_ids, got_history,
                   obsVars, trkVars, asgVars, trkObsVars, iouVars, smObsVars,
                   anVars, pfVars>>

ConstructInit ==
    /\ built = {}
    /\ AnIdle
    /\ PfIdle
    /\ BMIdle
    /\ TrkIdle
    /\ AsgIdle
    /\ IouIdle
    /\ SMIdle

ConstructNext == ConstructTracker \/ ConstructMonitor

SpecConstruct == ConstructInit /\ [][ConstructNext]_vars

(***************************************************************************)
(* C11 (SpecPipeline).  With stability_frames = 5 and                       *)
(* missing_object_frames = 15, an object that is in the baseline and then   *)
(* is absent from the detections yields no confirmed-missing event during   *)
(* the first 14 frames of the absence, exactly one in the 15th, and none    *)
(* after it.                                                                *)
(***************************************************************************)
C11_MissingAtFifteenthFrame ==
    \A i \in baseline_ids \cap ids_before_run :
        /\ (empty_run >= 1 /\ empty_run < 15) => i \notin printed_missing
        /\ empty_run = 15 => i \in printed_missing
        /\ empty_run > 15 => i \notin printed_missing

(***************************************************************************)
(* C12 (SpecScenario).  The list an update call returns holds exactly the   *)
(* snapshots of the registry's tracks that, when the call ends, have        *)
(* age >= min_hits and time_since_update <= 1, in registry order.           *)
(***************************************************************************)
C12_ReturnsConfirmedRecentTracks ==
    LET due == SelectSeq(trackers, LAMBDA trk :
                   trk.age >= min_hits /\ trk.time_since_update <= 1)
    IN /\ Len(trk_output) = Len(due)
       /\ \A k \in 1..Len(due) :
             /\ trk_output[k].id = due[k].track_id
             /\ trk_output[k].bbox = due[k].bbox
             /\ trk_output[k].confidence = due[k].confidence
             /\ trk_output[k].class_id = due[k].class_id
             /\ trk_output[k].age = due[k].age
             /\ trk_output[k].time_since_update = due[k].time_since_update

\* a track is returned in the first frame in which it goes unmatched
C12_Witness ==
    /\ Len(trk_output) = 1
    /\ trk_output[1].time_since_update = 1
    /\ empty_run = 1

(***************************************************************************)
(* C13 (SpecScenario).  When an update call has returned, no track of the   *)
(* registry has time_since_update > max_age; and a track whose              *)
(* time_since_update went above max_age in the call's prediction step is    *)
(* not corrected by a detection of that call.                               *)
(***************************************************************************)
C13_ExpiredTracksGoUncorrected ==
    [][/\ \A j \in 1..Len(trackers') : trackers'[j].time_since_update <= max_age
       /\ \A k \in 1..Len(trackers) :
             (/\ trackers[k].time_since_update > 0
              /\ trackers[k].time_since_update + 1 > max_age)
             => \A j \in 1..Len(trackers') :
                   trackers'[j].track_id = trackers[k].track_id
                   => trackers'[j].time_since_update # 0]_vars

\* box, three empty frames, box: track 1 expires in the fifth call and the
\* box of that call starts track 2
C13_Witness ==
    /\ trk_frame_count = 5
    /\ empty_run = 0
    /\ RegistryIds = {2}

(***************************************************************************)
(* C14 (SpecScenario).  A track that went unmatched in k consecutive calls  *)
(* is still in the registry while k <= max_age; it is deleted only after    *)
(* more than max_age consecutive unmatched frames.                          *)
(***************************************************************************)
C14_KeptForMaxAgeFrames ==
    empty_run <= max_age => ids_before_run \subseteq RegistryIds

(***************************************************************************)
(* C15 (SpecScenario).  When an update call has returned, each registry     *)
(* track's time_since_update is the number of calls since the one that last *)
(* corrected or created it: 0 in that call, one more per unmatched frame.   *)
(***************************************************************************)
C15_TimeSinceUpdateCountsFrames ==
    \A k \in 1..Len(trackers) :
        trackers[k].track_id \in ids_before_run
        => trackers[k].time_since_update = empty_run

(***************************************************************************)
(* C16 (SpecScenario).  An update call with an empty detection list creates *)
(* no track, corrects none, and adds exactly one to the age and to the      *)
(* time_since_update of every track it keeps, whatever these were.          *)
(***************************************************************************)
C16_EmptyFrameAgesByOne ==
    [][empty_run' = empty_run + 1
       => /\ next_id' = next_id
          /\ \A j \in 1..Len(trackers') : \E k \in 1..Len(trackers) :
                /\ trackers'[j].track_id = trackers[k].track_id
                /\ trackers'[j].age = trackers[k].age + 1
                /\ trackers'[j].time_since_update = trackers[k].time_since_update + 1]_vars

(***************************************************************************)
(* Boxes as section 3 of the specification describes them.                  *)
(***************************************************************************)
ProperBox(b) == b[1] < b[3] /\ b[2] < b[4]
BoxArea(b) == (b[3] - b[1]) * (b[4] - b[2])
\* the interiors meet
Overlapping(a, b) == a[1] < b[3] /\ b[1] < a[3] /\ a[2] < b[4] /\ b[2] < a[4]

(***************************************************************************)
(* C17 (SpecIoU).  For boxes with x1 < x2 and y1 < y2: iou(a, a) = 1,       *)
(* iou(a, b) = 0 when the boxes do not overlap (touching along an edge      *)
(* included), and 0 <= iou(a, b) <= 1 always.                               *)
(***************************************************************************)
C17_IoUBounds ==
    (iou_done /\ ProperBox(iou_boxA) /\ ProperBox(iou_boxB))
    => /\ iou_result.outcome = "value"
       /\ iou_result.den > 0
       /\ 0 <= iou_result.num
       /\ iou_result.num <= iou_result.den
       /\ iou_boxA = iou_boxB => iou_result.num = iou_result.den
       /\ ~Overlapping(iou_boxA, iou_boxB) => iou_result.num = 0

\* two boxes that share an edge and nothing else
C17_Witness ==
    /\ iou_done
    /\ ProperBox(iou_boxA) /\ ProperBox(iou_boxB)
    /\ iou_boxA[3] = iou_boxB[1]
    /\ iou_boxA[2] = iou_boxB[2] /\ iou_boxA[4] = iou_boxB[4]
    /\ iou_result.num = 0

(***************************************************************************)
(* C18 (SpecIoU).  iou(a, b) = iou(b, a) for boxes with x1 < x2, y1 < y2.   *)
(***************************************************************************)
C18_IoUSymmetric ==
    (iou_done /\ ProperBox(iou_boxA) /\ ProperBox(iou_boxB))
    => LET swapped == CalculateIoU(iou_boxB, iou_boxA)
       IN /\ iou_result.outcome = "value"
          /\ swapped.den > 0
          /\ iou_result.num * swapped.den = swapped.num * iou_result.den

\* two overlapping boxes of different areas
C18_Witness ==
    /\ iou_done
    /\ ProperBox(iou_boxA) /\ ProperBox(iou_boxB)
    /\ BoxArea(iou_boxA) < BoxArea(iou_boxB)
    /\ iou_result.num > 0
    /\ iou_result.num < iou_result.den

(***************************************************************************)
(* C19 (SpecIoU).  When one box or both have zero area, _calculate_iou      *)
(* returns 0 and divides by no zero.                                        *)
(***************************************************************************)
C19_ZeroAreaYieldsZero ==
    (iou_done /\ (BoxArea(iou_boxA) = 0 \/ BoxArea(iou_boxB) = 0))
    => /\ iou_result.outcome = "value"
       /\ iou_result.num = 0

(***************************************************************************)
(* C20 (Spec).  Counting update calls from construction or the last reset:  *)
(* every call before the stability_frames-th returns empty missing and new  *)
(* sets and evaluates nothing; the stability_frames-th call makes the       *)
(* baseline exactly the identifiers of its input and reports none missing   *)
(* or new; later calls do not replace the baseline.                         *)
(***************************************************************************)
C20_WarmUpThenBaseline ==
    /\ calls < stability_frames
         => /\ ~is_baseline_established
            /\ missing_ids = {} /\ new_ids = {}
            /\ printed_missing = {} /\ printed_new = {}
            /\ tracked_objects = EmptyDict
            /\ missing_objects = EmptyDict /\ new_objects = EmptyDict
    /\ calls = stability_frames
         => /\ is_baseline_established
            /\ Keys(tracked_objects) = last_input
            /\ missing_ids = {} /\ new_ids = {}
            /\ printed_missing = {} /\ printed_new = {}
    /\ calls > stability_frames
         => /\ is_baseline_established
            /\ Keys(tracked_objects) = seen_ids
            /\ baseline_ids \subseteq Keys(tracked_objects)

\* a baseline of two objects established by the second call, and a later
\* call that no longer sees one of them
C20_Witness ==
    /\ stability_frames = 2
    /\ calls = 3
    /\ is_baseline_established
    /\ baseline_ids = {1, 2}
    /\ last_input = {1}

(***************************************************************************)
(* C21 (Spec).  Every update call, warm-up calls included, appends one      *)
(* observation to the history of each identifier of its input: an           *)
(* identifier present in each of the first k calls (k <= 30) has exactly k  *)
(* history entries after the k-th call.                                     *)
(***************************************************************************)
C21_HistoryGrowsEveryCall ==
    \A i \in always_present :
        calls <= HistoryCap
        => /\ i \in Keys(object_history)
           /\ Len(object_history[i]) = calls

(***************************************************************************)
(* C23 (SpecMonitor).  get_object_history with an identifier that has no   *)
(* recorded history returns the empty sequence and changes nothing: no      *)
(* history entry is created and no tracked, missing or new record, counter  *)
(* or metric is altered.                                                    *)
(***************************************************************************)
C23_UnknownHistoryIsEmpty ==
    [][(last_op' = "get_object_history" /\ got_history'.obj_id \notin Keys(object_history))
       => /\ got_history'.history = <<>>
          /\ object_history' = object_history
          /\ tracked_objects' = tracked_objects
          /\ missing_objects' = missing_objects
          /\ new_objects' = new_objects
          /\ is_baseline_established' = is_baseline_established
          /\ frame_count' = frame_count
          /\ GetMetrics' = GetMetrics]_vars

\* identifier 3 is asked for while the memory holds the history of another
C23_Witness ==
    /\ got_history.asked
    /\ got_history.obj_id = 3
    /\ got_history.history = <<>>
    /\ Keys(object_history) # {}

(***************************************************************************)
(* C24 (SpecMonitor).  When SceneMonitor.reset has returned, the memory has *)
(* no tracked, missing, new or history entry, no baseline and frame counter *)
(* 0, and the three metrics are 0; between two calls the memory's and the   *)
(* monitor's frame counters always agree, so neither side is reset alone;   *)
(* the frames after a reset are a new warm-up.                              *)
(***************************************************************************)
C24_ResetIsWhole ==
    [][/\ last_op' = "reset"
           => /\ tracked_objects' = EmptyDict
              /\ missing_objects' = EmptyDict
              /\ new_objects' = EmptyDict
              /\ object_history' = EmptyDict
              /\ ~is_baseline_established'
              /\ frame_count' = 0
              /\ total_missing_objects' = 0
              /\ total_new_objects' = 0
              /\ sm_frame_count' = 0
       /\ frame_count' = sm_frame_count'
       /\ sm_frame_count' = 0 => (total_missing_objects' = 0 /\ total_new_objects' = 0)
       /\ frame_count' < stability_frames' => ~is_baseline_established']_vars

C24_Witness ==
    /\ last_op = "reset"
    /\ sm_frame_count = 0
    /\ frame_count = 0

(***************************************************************************)
(* C25 (SpecMonitor).  Since construction or the last reset,                *)
(* total_missing_objects is the largest number of missing identifiers any   *)
(* process_frame call returned and total_new_objects the largest number of  *)
(* new ones; neither decreases between resets; frames_processed is the      *)
(* number of process_frame calls and equals the memory's frame counter.     *)
(***************************************************************************)
Largest(S) == IF S = {} THEN 0 ELSE CHOOSE m \in S : \A x \in S : x <= m

C25_MetricsArePeaks ==
    [][/\ GetMetrics'.total_missing_objects = Largest(missing_counts')
       /\ GetMetrics'.total_new_objects = Largest(new_counts')
       /\ GetMetrics'.frames_processed = calls'
       /\ GetMetrics'.frames_processed = frame_count'
       /\ last_op' # "reset"
            => /\ total_missing_objects' >= total_missing_objects
               /\ total_new_objects' >= total_new_objects]_vars

\* two identifiers were missing at once, one of them is back
C25_Witness ==
    /\ total_missing_objects = 2
    /\ Cardinality(missing_ids) = 1
    /\ last_op = "update"

(***************************************************************************)
(* C30 (Spec).  After warm-up, an identifier in the missing bookkeeping has *)
(* missing_frames equal to the number of consecutive update calls, up to    *)
(* the current one, whose input did not hold it.                            *)
(***************************************************************************)
C30_MissingFramesCountsAbsence ==
    \A i \in Keys(missing_objects) :
        /\ i \in Ids
        /\ missing_objects[i].missing_frames = absent_run[i]
        /\ absent_run[i] >= 1

C30_Witness ==
    \E i \in Keys(missing_objects) :
        /\ missing_objects[i].missing_frames = 3
        /\ absent_run[i] = 3

(***************************************************************************)
(* C22 (SpecPipeline).  A track's history of observed boxes never holds     *)
(* more than 5 entries and an identifier's baseline history never more than *)
(* 30; a new observation goes to the end and, when the cap is exceeded, the *)
(* oldest entry is the one removed.                                         *)
(***************************************************************************)
MostRecent(h, n) == IF Len(h) <= n THEN h ELSE SubSeq(h, Len(h) - n + 1, Len(h))

HistoryOf(table, i) == IF i \in Keys(table) THEN table[i] ELSE <<>>

\* one step of the baseline histories
BaselineHistoriesStep ==
    \A i \in Keys(object_history') :
        LET old == HistoryOf(object_history, i)
            new == object_history'[i]
        IN /\ Len(new) <= 30
           /\ IF i \in last_input' /\ is_baseline_established'
              THEN /\ Len(new) >= 1
                   /\ new[Len(new)].frame = frame_count'
                   /\ new = MostRecent(Append(old, new[Len(new)]), 30)
              ELSE new = old

\* one step of the tracks' histories
TrackHistoriesStep ==
    \A j \in 1..Len(trackers') :
        LET new == trackers'[j].history
        IN /\ Len(new) <= 5
           /\ Len(new) >= 1
           /\ \A k \in 1..Len(trackers) :
                 trackers[k].track_id = trackers'[j].track_id
                 => IF trackers'[j].time_since_update = 0
                    THEN new = MostRecent(Append(trackers[k].history, new[Len(new)]), 5)
                    ELSE new = trackers[k].history

C22_HistoriesAreBoundedFifo ==
    [][BaselineHistoriesStep /\ TrackHistoriesStep]_vars

\* the 31st observation of identifier 1 has pushed out the first, and its
\* track holds five boxes
C22_Witness ==
    /\ 1 \in Keys(object_history)
    /\ Len(object_history[1]) = 30
    /\ object_history[1][1].frame = 6
    /\ object_history[1][30].frame = 35
    /\ Len(trackers) = 1
    /\ Len(trackers[1].history) = 5

(***************************************************************************)
(* C26 (SpecConstruct).  No tracker exists with a negative max_age or       *)
(* min_hits or an iou_threshold outside [0, 1], and no scene monitor with a *)
(* negative missing_object_frames or stability_frames: construction from    *)
(* such a configuration ends in an error.                                   *)
(***************************************************************************)
C26_InvalidConfigurationRejected ==
    /\ "tracker" \in built
         => /\ max_age >= 0
            /\ min_hits >= 0
            /\ iou_threshold.num >= 0
            /\ iou_threshold.num <= iou_threshold.den
    /\ "monitor" \in built
         => /\ missing_frames_threshold >= 0
            /\ stability_frames >= 0

(***************************************************************************)
(* The lifecycle states of section 4.2 of the specification.                *)
(***************************************************************************)
Tentative(trk) == trk.age < min_hits
Confirmed(trk) == trk.age >= min_hits /\ trk.time_since_update <= 1
Coasting(trk) == trk.time_since_update >= 1 /\ trk.time_since_update <= max_age
Dead(trk) == trk.time_since_update > max_age

StatesOf(trk) ==
    {st \in {"tentative", "confirmed", "coasting"} :
        \/ st = "tentative" /\ Tentative(trk)
        \/ st = "confirmed" /\ Confirmed(trk)
        \/ st = "coasting" /\ Coasting(trk)}

(***************************************************************************)
(* C27 as stated (SpecScenario).  After every update call each registry     *)
(* track satisfies exactly one of the definitions tentative, confirmed and  *)
(* coasting, and none satisfies the definition of dead.                     *)
(***************************************************************************)
C27_ExactlyOneLifecycleState ==
    \A k \in 1..Len(trackers) :
        /\ Cardinality(StatesOf(trackers[k])) = 1
        /\ ~Dead(trackers[k])

(***************************************************************************)
(* C27 as amended (SpecScenario).  After every update call each registry    *)
(* track satisfies at least one of the definitions tentative, confirmed and *)
(* coasting, and none satisfies the definition of dead.                     *)
(***************************************************************************)
C27_SomeLifecycleStateNoneDead ==
    \A k \in 1..Len(trackers) :
        /\ StatesOf(trackers[k]) # {}
        /\ ~Dead(trackers[k])

\* a track that is coasting and nothing else
C27_Witness ==
    \E k \in 1..Len(trackers) :
        /\ StatesOf(trackers[k]) = {"coasting"}
        /\ trackers[k].time_since_update = max_age

(***************************************************************************)
(* C28 (SpecAssign).  A pair whose IoU equals iou_threshold is accepted: no *)
(* detection is left unmatched (to start a new track) while a tracker that  *)
(* is left unmatched meets the threshold with it.                           *)
(***************************************************************************)
C28_ThresholdTieIsAccepted ==
    asg_done =>
        LET iou == IouMatrix(asg_detections, trackers)
        IN \A kd \in 1..Len(asg_result.unmatched_detections) :
             \A kt \in 1..Len(asg_result.unmatched_trackers) :
                ~FracAtLeast(iou[asg_result.unmatched_detections[kd]]
                                [asg_result.unmatched_trackers[kt]],
                             iou_threshold)

(***************************************************************************)
(* C29 (SpecAssign).  Among pairs of equal IoU the one with the lowest      *)
(* detection index is committed first and, for one detection, the tracker   *)
(* with the lowest index among the equal ones still free is chosen.         *)
(***************************************************************************)
FracEqual(a, b) == a.num * b.den = b.num * a.den

C29_TiesGoToLowestIndex ==
    asg_done =>
        LET iou == IouMatrix(asg_detections, trackers)
            m == asg_result.matches
            takenBefore(k) == {m[j][2] : j \in 1..(k - 1)}
        IN /\ \A k \in 1..Len(m) : \A j \in 1..(k - 1) : m[j][1] < m[k][1]
           /\ \A k \in 1..Len(m) :
                 \A t \in 1..Len(trackers) :
                    (/\ t < m[k][2]
                     /\ t \notin takenBefore(k)
                     /\ FracEqual(iou[m[k][1]][t], iou[m[k][1]][m[k][2]]))
                    => FALSE
           /\ \A k \in 1..Len(m) :
                 \A d \in 1..(m[k][1] - 1) :
                    FracEqual(iou[d][m[k][2]], iou[m[k][1]][m[k][2]])
                    => \E j \in 1..(k - 1) :
                          /\ m[j][1] = d
                          /\ FracAtLeast(iou[d][m[j][2]], iou[d][m[k][2]])

\* one detection, two trackers on the same box: the first is taken
C29_Witness ==
    /\ asg_done
    /\ Len(asg_detections) = 1
    /\ Len(trackers) = 2
    /\ trackers[1].bbox = trackers[2].bbox
    /\ asg_result.matches = <<(<<1, 1>>)>>

(***************************************************************************)
(* C31 (Spec).  When an update call has returned, every identifier whose    *)
(* confirmed-missing line it printed has been absent from at least          *)
(* missing_object_frames consecutive inputs, and no call up to the one that *)
(* establishes the baseline prints any; with missing_object_frames >= 2 an  *)
(* identifier absent from one input and back in the next has no such line   *)
(* printed in either call.                                                  *)
(***************************************************************************)
C31_NoMissingEventBeforeThreshold ==
    [][/\ \A i \in printed_missing' :
             /\ i \in Ids
             /\ absent_run'[i] >= missing_frames_threshold
       /\ calls' <= stability_frames => printed_missing' = {}
       /\ \A i \in Ids :
             (/\ missing_frames_threshold >= 2
              /\ absent_run[i] = 1
              /\ last_op' = "update"
              /\ i \in last_input')
             => (i \notin printed_missing /\ i \notin printed_missing')]_vars

\* one identifier was absent for a single call and is back, while the call
\* prints the line for another whose absence has reached the threshold
C31_Witness ==
    \E i, j \in Ids :
        /\ missing_frames_threshold >= 2
        /\ reappeared_after[i] = 1
        /\ i \in last_input
        /\ j \in printed_missing
        /\ absent_run[j] = missing_frames_threshold

(***************************************************************************)
(* SpecMulti: the tracker fed up to two detections per frame, on two boxes  *)
(* that are apart (B1, B5) and with two classes; the association call made  *)
(* inside update (line 302) is recorded with its arguments and its result.  *)
(* A detection on a track's own box leaves the estimate where it is.        *)
(***************************************************************************)
MultiDetections ==
    {[bbox |-> B1, class_id |-> 0, confidence |-> 9],
     [bbox |-> B1, class_id |-> 1, confidence |-> 5],
     [bbox |-> B5, class_id |-> 0, confidence |-> 9]}

MultiDetCounts == {0, 1, 2}

MultiDetectionLists == UNION {[1..n -> MultiDetections] : n \in MultiDetCounts}

MultiInit ==
    /\ max_age \in {0, 1}
    /\ min_hits \in {1, 2}
    /\ iou_threshold = [num |-> 3, den |-> 10]
    /\ TrkFresh
    /\ TrkObsInit
    /\ BMIdle
    /\ AsgIdle
    /\ IouIdle
    /\ SMIdle
    /\ AllBuilt
    /\ AnIdle
    /\ PfIdle

MultiUpdate ==
    /\ trk_frame_count < MultiFrames
    /\ \E detections \in MultiDetectionLists :
          /\ TrkUpdate(detections)
          /\ ObserveTrk(detections)
          /\ \E r \in UpdateResults(trackers, next_id, detections) :
                /\ r.trackers = trackers'
                /\ r.next_id = next_id'
                /\ r.tracked_objects = trk_output'
                /\ asg_detections' = detections
                /\ asg_trackers' = r.active_trackers
                /\ asg_result' = r.asg
                /\ asg_done' = TRUE
    /\ UNCHANGED <<bmVars, obsVars, iouVars, smVars, smObsVars, anVars, pfVars, built>>

MultiNext == MultiUpdate

SpecMulti == MultiInit /\ [][MultiNext]_vars

\* how often x occurs in the sequence s
Occurrences(s, x) == Cardinality({k \in 1..Len(s) : s[k] = x})

\* the tracks of a registry that carry the identifier i
TracksWithId(trks, i) == {k \in 1..Len(trks) : trks[k].track_id = i}

(***************************************************************************)
(* C32 (SpecMulti).  In an update call, the matches, the unmatched          *)
(* detections and the unmatched tracks of the association hold every        *)
(* detection index exactly once and every active track index exactly once;  *)
(* a matched detection is committed to one existing track, which is in the  *)
(* registry once after the call; the k-th unmatched detection starts one    *)
(* track, with an identifier never issued before, age 0, time_since_update  *)
(* 0 and the detection's box, class and confidence; nothing else is         *)
(* created; and with min_hits >= 1 no track created in the call is in the   *)
(* call's output.                                                           *)
(***************************************************************************)
C32_EachDetectionAccountedOnce ==
    [][LET dets == asg_detections'
           act == asg_trackers'
           m == asg_result'.matches
           ud == asg_result'.unmatched_detections
           ut == asg_result'.unmatched_trackers
           matched_d == [k \in 1..Len(m) |-> m[k][1]]
           matched_t == [k \in 1..Len(m) |-> m[k][2]]
           created == {j \in 1..Len(trackers') : trackers'[j].track_id >= next_id}
       IN /\ \A d \in 1..Len(dets) : Occurrences(matched_d, d) + Occurrences(ud, d) = 1
          /\ \A k \in 1..Len(m) : m[k][1] \in 1..Len(dets) /\ m[k][2] \in 1..Len(act)
          /\ \A k \in 1..Len(ud) : ud[k] \in 1..Len(dets)
          /\ \A t \in 1..Len(act) : Occurrences(matched_t, t) + Occurrences(ut, t) = 1
          /\ \A k \in 1..Len(ut) : ut[k] \in 1..Len(act)
          /\ \A t \in 1..Len(act) : TracksWithId(trackers, act[t].track_id) # {}
          /\ \A k \in 1..Len(m) :
                /\ Cardinality(TracksWithId(trackers', act[m[k][2]].track_id)) = 1
                /\ act[m[k][2]].track_id < next_id
          /\ Cardinality(created) = Len(ud)
          /\ next_id' = next_id + Len(ud)
          /\ \A k \in 1..Len(ud) :
                /\ \A j \in 1..Len(issued_ids) : issued_ids[j] # next_id + k - 1
                /\ Cardinality(TracksWithId(trackers', next_id + k - 1)) = 1
                /\ \A j \in TracksWithId(trackers', next_id + k - 1) :
                      /\ trackers'[j].age = 0
                      /\ trackers'[j].time_since_update = 0
                      /\ trackers'[j].bbox = dets[ud[k]].bbox
                      /\ trackers'[j].class_id = dets[ud[k]].class_id
                      /\ trackers'[j].confidence = dets[ud[k]].confidence
          /\ min_hits >= 1
               => \A k \in 1..Len(trk_output') : trk_output'[k].id < next_id]_vars

\* a call that matched one detection, started a track for the other and left
\* one active track unmatched
C32_Witness ==
    /\ asg_done
    /\ Len(asg_detections) = 2
    /\ Len(asg_result.matches) = 1
    /\ Len(asg_result.unmatched_detections) = 1
    /\ Len(asg_result.unmatched_trackers) = 1
    /\ next_id = 4

(***************************************************************************)
(* C33 (SpecMulti).  In an update call, the track of every committed match  *)
(* is in the registry after the call under the identifier it had, with      *)
(* time_since_update 0 and the confidence and class_id of its detection,    *)
(* also when that class_id is not the one the track had; every track left   *)
(* unmatched that stays in the registry has the identifier, confidence and  *)
(* class_id it had; and no identifier issued before the call is in the      *)
(* registry after it without having been there before.                      *)
(***************************************************************************)
C33_MatchCopiesDetectionLabel ==
    [][LET dets == asg_detections'
           act == asg_trackers'
           m == asg_result'.matches
           ut == asg_result'.unmatched_trackers
       IN /\ \A k \in 1..Len(m) :
                LET det == dets[m[k][1]]
                    trk == act[m[k][2]]
                IN /\ TracksWithId(trackers, trk.track_id) # {}
                   /\ TracksWithId(trackers', trk.track_id) # {}
                   /\ \A j \in TracksWithId(trackers', trk.track_id) :
                         /\ trackers'[j].time_since_update = 0
                         /\ trackers'[j].confidence = det.confidence
                         /\ trackers'[j].class_id = det.class_id
          /\ \A k \in 1..Len(ut) :
                LET trk == act[ut[k]]
                IN /\ \A j \in TracksWithId(trackers, trk.track_id) :
                         /\ trackers[j].confidence = trk.confidence
                         /\ trackers[j].class_id = trk.class_id
                   /\ \A j \in TracksWithId(trackers', trk.track_id) :
                         /\ trackers'[j].confidence = trk.confidence
                         /\ trackers'[j].class_id = trk.class_id
                         /\ trackers'[j].time_since_update > 0
          /\ \A j \in 1..Len(trackers') :
                trackers'[j].track_id < next_id
                => TracksWithId(trackers, trackers'[j].track_id) # {}]_vars

\* a detection of class 1 was matched to a track of class 0, and another
\* track went unmatched and is kept
C33_Witness ==
    /\ asg_done
    /\ Len(asg_result.unmatched_trackers) = 1
    /\ TracksWithId(trackers, asg_trackers[asg_result.unmatched_trackers[1]].track_id) # {}
    /\ \E k \in 1..Len(asg_result.matches) :
          LET det == asg_detections[asg_result.matches[k][1]]
              trk == asg_trackers[asg_result.matches[k][2]]
          IN /\ det.class_id = 1
             /\ trk.class_id = 0
             /\ \E j \in TracksWithId(trackers, trk.track_id) : trackers[j].class_id = 1

\* The frames in which a detection was associated with the track: its
\* history holds the box of the detection that created it (line 64) and one
\* box per correction (line 154), up to the last five.
ObservedFrames(trk) == Len(trk.history)

(***************************************************************************)
(* C34 (SpecScenario).  Every track in the output of an update call has had *)
(* a detection associated with it, the one that created it included, in at  *)
(* least min_hits frames.                                                   *)
(***************************************************************************)
C34_OutputAfterMinHitsObservations ==
    \A k \in 1..Len(trk_output) :
        \A j \in TracksWithId(trackers, trk_output[k].id) :
            ObservedFrames(trackers[j]) >= min_hits

(***************************************************************************)
(* C35 (SpecPipeline).  An identifier in the missing bookkeeping that is    *)
(* not in the input of an update call is in the missing output of that call *)
(* with missing_frames one higher, whatever the count was; and an           *)
(* identifier in the missing bookkeeping whose track the tracker has        *)
(* purged is in no later input, its identifier being issued to no other     *)
(* track, so it stays in the missing output.                                *)
(***************************************************************************)
\* one update call of the memory
MissingStaysStep ==
    \A i \in Keys(missing_objects) :
        (last_op' = "update" /\ i \notin last_input')
        => /\ i \in missing_ids'
           /\ i \in Keys(missing_objects')
           /\ missing_objects'[i].missing_frames = missing_objects[i].missing_frames + 1

\* one frame of the pipeline
PurgedStaysMissingStep ==
    \A i \in Keys(missing_objects) :
        i \notin RegistryIds
        => /\ i < next_id
           /\ i \notin {trackers'[k].track_id : k \in 1..Len(trackers')}
           /\ i \notin last_input'
           /\ i \in missing_ids'

C35_MissingUntilReappearance ==
    [][MissingStaysStep /\ PurgedStaysMissingStep]_vars

\* track 1 was purged while missing, the object is tracked again as 2, and
\* identifier 1 is still reported missing, its count past the threshold
C35_Witness ==
    /\ 1 \in missing_ids
    /\ 1 \notin RegistryIds
    /\ 2 \in OutputIds
    /\ missing_objects[1].missing_frames > missing_frames_threshold

(***************************************************************************)
(* SpecPurge: the frames of SpecScenario for several values of max_age,     *)
(* with update called again and again up to the bound on the frames.        *)
(***************************************************************************)
PurgeMaxAges == {0, 1, 2, 5}

PurgeInit ==
    /\ max_age \in PurgeMaxAges
    /\ min_hits = 3
    /\ iou_threshold = [num |-> 3, den |-> 10]
    /\ TrkFresh
    /\ TrkObsInit
    /\ BMIdle
    /\ AsgIdle
    /\ IouIdle
    /\ SMIdle
    /\ AllBuilt
    /\ AnIdle
    /\ PfIdle

\* update is entered once more (line 292 is its first statement), whatever
\* the detections; within the run this can happen exactly when a frame of
\* ScenarioNext can
UpdateCalled ==
    /\ trk_frame_count < ScenarioFrames
    /\ trk_frame_count' = trk_frame_count + 1

SpecPurge == PurgeInit /\ [][ScenarioNext]_vars /\ WF_trk_frame_count(UpdateCalled)

\* track i is in the registry and the last call did not correct it
Unmatched(i) ==
    \E k \in TracksWithId(trackers, i) : trackers[k].time_since_update > 0

\* track i is in the registry and the last call corrected it
Rematched(i) ==
    \E k \in TracksWithId(trackers, i) : trackers[k].time_since_update = 0

\* more than max_age further calls fit in the run
CallsRemain == trk_frame_count + max_age + 1 <= ScenarioFrames

PurgeIds == 1..ScenarioFrames

(***************************************************************************)
(* C36 (SpecPurge).  For max_age 0, 1, 2 and 5, while update keeps being    *)
(* called: a track that a call left unmatched is later matched again or     *)
(* removed from the registry; an identifier that was issued and is no       *)
(* longer in the registry is in the registry and in the output of no later  *)
(* call; and no call returns a track it has removed.                        *)
(***************************************************************************)
C36_UnmatchedTrackIsPurged ==
    /\ \A i \in PurgeIds :
          (Unmatched(i) /\ CallsRemain) ~> (i \notin RegistryIds \/ Rematched(i))
    /\ [](OutputIds \subseteq RegistryIds)
    /\ [][\A i \in PurgeIds :
             (i < next_id /\ i \notin RegistryIds)
             => /\ i \notin {trackers'[k].track_id : k \in 1..Len(trackers')}
                /\ i \notin {trk_output'[k].id : k \in 1..Len(trk_output')}]_vars

\* max_age 2: the track made by the first frame went unmatched in two calls
\* and was removed by the second; the box of a later frame started track 2
C36_Witness ==
    /\ max_age = 2
    /\ issued_ids = <<1, 2>>
    /\ RegistryIds = {2}
    /\ 1 \notin OutputIds
    /\ trk_frame_count = 4

(***************************************************************************)
(* SpecStages: InferenceEngine._process_frame (src/engine/inference.py,     *)
(* lines 150-186) as four with blocks, each under a PerformanceTimer        *)
(* (src/utils/timer.py), and the return statement.  What the stages compute *)
(* is left out: a statement either raises an error or binds its names.      *)
(***************************************************************************)
\* The statements of each with block: the local names a statement reads and
\* the ones it binds when it completes (lines 152, 156, 160, 163, 168, 177, 180).
StageStatements ==
    <<
      <<[needs |-> {"frame"}, binds |-> {"detections"}]>>,
      <<[needs |-> {"detections"}, binds |-> {"tracked_objects"}]>>,
      <<[needs |-> {"tracked_objects"},
         binds |-> {"tracked_objects", "missing_ids", "new_ids",
                    "missing_objects", "new_objects"}],
        [needs |-> {"missing_objects", "new_objects"}, binds |-> {}]>>,
      <<[needs |-> {"frame", "tracked_objects", "missing_ids", "new_ids"},
         binds |-> {"result_frame"}],
        [needs |-> {"result_frame"}, binds |-> {"result_frame"}],
        [needs |-> {"missing_objects", "new_objects", "frame"},
         binds |-> {"status_panel"}]>>
    >>

\* line 186: return result_frame, status_panel
ReturnNeeds == {"result_frame", "status_panel"}

\* The body of a with block from statement k on; the callee of statement
\* fail_at raises (0: none does).  Reading a local name that is not bound
\* raises UnboundLocalError.
RECURSIVE RunBody(_, _, _, _)
RunBody(stmts, k, locals, fail_at) ==
    IF k > Len(stmts) THEN [locals |-> locals, error |-> "none"]
    ELSE IF ~(stmts[k].needs \subseteq locals)
         THEN [locals |-> locals, error |-> "UnboundLocalError"]
         ELSE IF k = fail_at
              THEN [locals |-> locals, error |-> "StageError"]
              ELSE RunBody(stmts, k + 1, locals \cup stmts[k].binds, fail_at)

\* time.time() - self.start_time (line 99): 0 when the clock reads the same
\* at both ends of the block, 1 for any later reading
ElapsedValues == {0, 1}

\* PerformanceTimer.start, line 87 (1 stands for a time)
TimerStart(timer) == [timer EXCEPT !.start_time = 1]

\* PerformanceTimer.stop, lines 96-101
TimerStop(timer, elapsed) ==
    IF timer.start_time = 0 THEN timer
    ELSE [start_time |-> 0, elapsed |-> elapsed]

\* PerformanceTimer.__exit__, line 81: the value handed back to the with
\* statement
TimerExitValue(timer) == timer.elapsed

\* the with statement drops the error in flight when __exit__ returns a
\* true value; a float is true unless it is 0.0
Truthy(x) == x # 0

\* lines 108-113: a new frame is read and handed to _process_frame; an error
\* out of _process_frame ends run (the try of line 93 has no except clause)
StartFrame ==
    /\ pf_stage = 0
    /\ pf_result \in {"none", "returned"}
    /\ pf_frames < StageFrames
    /\ pf_frames' = pf_frames + 1
    /\ pf_stage' = 1
    /\ pf_locals' = {"frame"}
    /\ pf_result' = "none"
    /\ pf_failed' = {}
    /\ UNCHANGED <<pf_timers, bmVars, obsVars, trkVars, asgVars, trkObsVars, iouVars,
                   smVars, smObsVars, anVars, built>>

\* one with block: __enter__, the body, __exit__
WithBlock ==
    /\ pf_stage \in 1..4
    /\ \E fail_at \in 0..Len(StageStatements[pf_stage]), elapsed \in ElapsedValues :
          LET body == RunBody(StageStatements[pf_stage], 1, pf_locals, fail_at)
              timer == TimerStop(TimerStart(pf_timers[pf_stage]), elapsed)
              suppressed == body.error # "none" /\ Truthy(TimerExitValue(timer))
          IN /\ pf_timers' = [pf_timers EXCEPT ![pf_stage] = timer]
             /\ pf_locals' = body.locals
             /\ pf_failed' = IF body.error # "none" THEN pf_failed \cup {pf_stage}
                                                    ELSE pf_failed
             /\ IF body.error = "none" \/ suppressed
                THEN /\ pf_stage' = pf_stage + 1
                     /\ pf_result' = pf_result
                ELSE /\ pf_stage' = 0
                     /\ pf_result' = body.error
    /\ UNCHANGED <<pf_frames, bmVars, obsVars, trkVars, asgVars, trkObsVars, iouVars,
                   smVars, smObsVars, anVars, built>>

\* line 186
ReturnFrame ==
    /\ pf_stage = 5
    /\ pf_stage' = 0
    /\ pf_result' = IF ReturnNeeds \subseteq pf_locals THEN "returned"
                                                       ELSE "UnboundLocalError"
    /\ UNCHANGED <<pf_frames, pf_locals, pf_timers, pf_failed, bmVars, obsVars, trkVars,
                   asgVars, trkObsVars, iouVars, smVars, smObsVars, anVars, built>>

StagesInit ==
    /\ PfIdle
    /\ AnIdle
    /\ BMIdle
    /\ TrkIdle
    /\ AsgIdle
    /\ IouIdle
    /\ SMIdle
    /\ AllBuilt

StagesNext == StartFrame \/ WithBlock \/ ReturnFrame

SpecStages == StagesInit /\ [][StagesNext]_vars

(***************************************************************************)
(* C37 (SpecStages).  After every with block its timer is stopped           *)
(* (start_time cleared); and once the body of a block has raised an error,  *)
(* the call of _process_frame has ended with that error at that block: no   *)
(* later block is run and nothing is returned.                              *)
(***************************************************************************)
C37_StageErrorReachesCaller ==
    /\ \A s \in 1..4 : pf_timers[s].start_time = 0
    /\ pf_failed # {}
         => /\ pf_stage = 0
            /\ pf_result \in {"StageError", "UnboundLocalError"}
            /\ Cardinality(pf_failed) = 1

(***************************************************************************)
(* The alert notifier: src/alerts/notify.py.  An alert is kept by its type  *)
(* and obj_id; its message, colour, class and time are only drawn.  The     *)
(* list is in the order of the alerts' times.                               *)
(***************************************************************************)
\* dict.get(key, default)
RecordGet(rec, key, default) == IF key \in DOMAIN rec THEN rec[key] ELSE default

\* lines 135 and 142: any(alert['obj_id'] == obj['id'] and alert['type'] == type ...)
HasAlert(alist, type, obj_id) ==
    \E k \in 1..Len(alist) : alist[k].type = type /\ alist[k].obj_id = obj_id

\* lines 133-137: the records of the missing list that get an alert
MissingToAlert(alist, missing_records) ==
    {i \in Keys(missing_records) :
        /\ ~HasAlert(alist, "missing", missing_records[i].id)
        /\ RecordGet(missing_records[i], "missing_frames", 0)
              = RecordGet(missing_records[i], "missing_frames_threshold", 15)}

\* lines 140-144: the records of the new list that get an alert
NewToAlert(alist, new_records) ==
    {i \in Keys(new_records) :
        /\ ~HasAlert(alist, "new", new_records[i].id)
        /\ RecordGet(new_records[i], "new_frames", 0)
              = RecordGet(new_records[i], "stability_frames", 5)}

\* the lists that hold each element of S once (the order in which a dict's
\* records come is the order of their insertion)
Enumerations(S) ==
    {s \in [1..Cardinality(S) -> S] : \A a, b \in 1..Cardinality(S) : a # b => s[a] # s[b]}

\* add_missing_object_alert (lines 17-38) and add_new_object_alert (lines 40-61)
AlertsFor(type, order, records) ==
    [k \in 1..Len(order) |-> [type |-> type, obj_id |-> RecordGet(records[order[k]], "id", -1)]]

\* line 80: the alerts younger than alert_duration are kept; they are the
\* last `keep` of the list
DrawAlerts(alist, keep) == SubSeq(alist, Len(alist) - keep + 1, Len(alist))

\* update_with_scene_changes (lines 124-144) and then draw_alerts (line 80),
\* as _process_frame calls them at lines 163 and 177
NotifierFrame(missing_records, new_records) ==
    LET m == MissingToAlert(alerts, missing_records)
        n == NewToAlert(alerts, new_records)
    IN /\ added_alerts' = {<<"missing", missing_records[i].id>> : i \in m}
                            \cup {<<"new", new_records[i].id>> : i \in n}
       /\ \E mo \in Enumerations(m), no \in Enumerations(n) :
             LET after == alerts \o AlertsFor("missing", mo, missing_records)
                                 \o AlertsFor("new", no, new_records)
             IN \E keep \in 0..Len(after) : alerts' = DrawAlerts(after, keep)

(***************************************************************************)
(* SpecAlerts: the monitoring and drawing steps of _process_frame           *)
(* (inference.py lines 160-177) over per-frame identifier sets that change  *)
(* at most AlertChanges times in a run, for several configurations of the   *)
(* memory, the default one among them.                                      *)
(***************************************************************************)
AlertThresholds == {2, 15}
AlertStabilities == {1, 2}

AlertsInit ==
    /\ missing_frames_threshold \in AlertThresholds
    /\ stability_frames \in AlertStabilities
    /\ BMFresh
    /\ ObsInit
    /\ SMFresh
    /\ SMObsInit
    /\ AnIdle
    /\ TrkIdle
    /\ AsgIdle
    /\ IouIdle
    /\ AllBuilt
    /\ PfIdle

AlertFrame ==
    /\ sm_frame_count < AlertFrames
    /\ \E ids \in SUBSET Ids :
          LET changed == IF calls > 0 /\ ids # last_input THEN 1 ELSE 0
          IN /\ input_changes + changed <= AlertChanges
             /\ input_changes' = input_changes + changed
             /\ SMProcessFrame(CurrentObjects(ids))
             /\ ObserveUpdate(ids)
    /\ ObserveFrame
    /\ NotifierFrame(missing_objects', new_objects')
    /\ UNCHANGED <<trkVars, asgVars, trkObsVars, iouVars, pfVars, built>>

AlertsNext == AlertFrame

SpecAlerts == AlertsInit /\ [][AlertsNext]_vars

(***************************************************************************)
(* C38 (SpecAlerts).  After every frame, the call of                        *)
(* update_with_scene_changes has added a missing-object alert for an        *)
(* identifier exactly when its record's missing_frames equals the memory's  *)
(* configured missing_object_frames (a count that grows by one per frame of *)
(* an absence, hence once per absence); and it has added a new-object alert *)
(* for an identifier whose record's new_frames equals the configured        *)
(* stability_frames in the frame of its appearance run with that number,    *)
(* and for no identifier whose new_frames differs from stability_frames.    *)
(***************************************************************************)
MissingAlertDue(i) ==
    /\ i \in Keys(missing_objects)
    /\ missing_objects[i].missing_frames = missing_frames_threshold

NewAlertDue(i) ==
    /\ i \in Keys(new_objects)
    /\ new_objects[i].new_frames = stability_frames

C38_AlertsAtConfiguredThresholds ==
    \A i \in Ids :
       /\ <<"missing", i>> \in added_alerts <=> MissingAlertDue(i)
       /\ <<"new", i>> \in added_alerts => NewAlertDue(i)
       /\ NewAlertDue(i) /\ present_run[i] = stability_frames
            => <<"new", i>> \in added_alerts
====
